---- MODULE Spec2Model ----
(***************************************************************************)
(* A model of the computer-chess engine: bitboards, move generation,       *)
(* make/undo, check detection, Zobrist hashing, the transposition table    *)
(* and the alpha-beta search.  A bitboard (U64) is the set of its set      *)
(* bits, so bit k of the C value is the element k; square h1 = 0 and       *)
(* a8 = 63 as in the enum of chess.h.                                      *)
(***************************************************************************)
EXTENDS Integers, Sequences, FiniteSets, TLC

\* ------------------------------------------------------------------------
\* U64 primitives
\* ------------------------------------------------------------------------
Squares == 0..63

\* bb << n and bb >> n on 64 bits: bits shifted out are lost
shl(bb, n) == {s + n : s \in {t \in bb : t + n <= 63}}
shr(bb, n) == {s - n : s \in {t \in bb : t >= n}}
\* ~bb
bnot(bb) == Squares \ bb
\* bb & -bb as a square: the least significant set bit
bbToSq(bb) == CHOOSE s \in bb : \A t \in bb : s <= t

\* the squares of a bitboard in the order "take LSB, clear LSB"
BitsAscending(bb) ==
    [k \in 1..Cardinality(bb) |->
        CHOOSE s \in bb : Cardinality({t \in bb : t < s}) = k - 1]

\* enum piece / colours
pawn == 0
knight == 1
bishop == 2
rook == 3
queen == 4
king == 5
WHITE == 0
BLACK == 1

\* enum square: the four rook corners
h1 == 0
a1 == 7
h8 == 56
a8 == 63

\* wrap-around masks
notA == {s \in Squares : s % 8 # 0}
notAB == {s \in Squares : s % 8 \notin {0, 1}}
notH == {s \in Squares : s % 8 # 7}
notGH == {s \in Squares : s % 8 \notin {6, 7}}

\* ------------------------------------------------------------------------
\* Attack generators (bitboards.c)
\* ------------------------------------------------------------------------
knightAttacks(knight_bb) ==
    LET l1 == shl(knight_bb, 1) \cap notA
        l2 == shl(knight_bb, 2) \cap notAB
        r1 == shr(knight_bb, 1) \cap notH
        r2 == shr(knight_bb, 2) \cap notGH
        hh1 == l1 \cup r1
        hh2 == l2 \cup r2
    IN shr(hh1, 16) \cup shr(hh2, 8) \cup shl(hh1, 16) \cup shl(hh2, 8)

wpLeftAttacks(pawn_bb) == shl(pawn_bb, 9) \cap notA
wpRightAttacks(pawn_bb) == shl(pawn_bb, 7) \cap notH
wpAttacks(pawn_bb) == wpLeftAttacks(pawn_bb) \cup wpRightAttacks(pawn_bb)
bpLeftAttacks(pawn_bb) == shr(pawn_bb, 7) \cap notA
bpRightAttacks(pawn_bb) == shr(pawn_bb, 9) \cap notH
bpAttacks(pawn_bb) == bpLeftAttacks(pawn_bb) \cup bpRightAttacks(pawn_bb)

rank2 == 8..15
rank7 == 48..55
wpSinglePushes(pawn_bb) == shl(pawn_bb, 8)
wpDoublePushes(pawn_bb) == shl(pawn_bb \cap rank2, 16)
wpPushes(pawn_bb, empt) ==
    (wpSinglePushes(pawn_bb) \cap empt)
        \cup (wpDoublePushes(pawn_bb) \cap empt \cap shl(empt, 8))
bpSinglePushes(pawn_bb) == shr(pawn_bb, 8)
bpDoublePushes(pawn_bb) == shr(pawn_bb \cap rank7, 16)
bpPushes(pawn_bb, empt) ==
    (bpSinglePushes(pawn_bb) \cap empt)
        \cup (bpDoublePushes(pawn_bb) \cap empt \cap shr(empt, 8))

kingAttacks(king_bb) ==
    LET back == bpSinglePushes(king_bb) \cup bpAttacks(king_bb)
        forw == wpSinglePushes(king_bb) \cup wpAttacks(king_bb)
        left == shl(king_bb, 1) \cap notA
        rght == shr(king_bb, 1) \cap notH
    IN back \cup forw \cup left \cup rght

\* signed shift: d > 0 is <<, d < 0 is >>
shift(bb, d) == IF d >= 0 THEN shl(bb, d) ELSE shr(bb, -d)

\* the dumb7fill loop: n times "ray |= sliders = shift(sliders) & empt"
RECURSIVE fill(_, _, _, _)
fill(sliders, empt, d, n) ==
    IF n = 0 \/ sliders = {} THEN {}
    ELSE LET nxt == shift(sliders, d) \cap empt
         IN nxt \cup fill(nxt, empt, d, n - 1)

backRay(sliders, empt) == shr(sliders \cup fill(sliders, empt, -8, 6), 8)
forwRay(sliders, empt) == shl(sliders \cup fill(sliders, empt, 8, 6), 8)
leftRay(sliders, empt) ==
    shl(sliders \cup fill(sliders, empt \cap notA, 1, 6), 1) \cap notA
rghtRay(sliders, empt) ==
    shr(sliders \cup fill(sliders, empt \cap notH, -1, 6), 1) \cap notH
rookAttacks(rook_bb, empt) ==
    forwRay(rook_bb, empt) \cup backRay(rook_bb, empt)
        \cup leftRay(rook_bb, empt) \cup rghtRay(rook_bb, empt)

nwRay(sliders, empt) ==
    shl(sliders \cup fill(sliders, empt \cap notH, 7, 6), 7) \cap notH
swRay(sliders, empt) ==
    shr(sliders \cup fill(sliders, empt \cap notH, -9, 6), 9) \cap notH
neRay(sliders, empt) ==
    shl(sliders \cup fill(sliders, empt \cap notA, 9, 6), 9) \cap notA
seRay(sliders, empt) ==
    shr(sliders \cup fill(sliders, empt \cap notA, -7, 6), 7) \cap notA
bishopAttacks(bishop_bb, empt) ==
    neRay(bishop_bb, empt) \cup seRay(bishop_bb, empt)
        \cup nwRay(bishop_bb, empt) \cup swRay(bishop_bb, empt)

queenAttacks(queen_bb, empt) ==
    bishopAttacks(queen_bb, empt) \cup rookAttacks(queen_bb, empt)

\* enPassantAttacks that looks from the target the way the mover's pawns attack
enPassantAttacks_moversWay(pawn_bb, color, enPassantSq) ==
    LET attacksFromSq == IF color # 0 THEN bpAttacks(enPassantSq)
                         ELSE wpAttacks(enPassantSq)
    IN IF attacksFromSq \cap pawn_bb # {} THEN enPassantSq ELSE {}

enPassantAttacks(pawn_bb, color, enPassantSq) ==
    LET attacksFromSq == IF color # 0 THEN wpAttacks(enPassantSq)
                         ELSE bpAttacks(enPassantSq)
    IN IF attacksFromSq \cap pawn_bb # {} THEN enPassantSq ELSE {}


\* ------------------------------------------------------------------------
\* State
\* ------------------------------------------------------------------------
VARIABLES
    gs,          \* the game_state the driver owns (main: gs)
    rookMagics,  \* what init_rook_magics left behind, see MagicIndex
    saved,       \* save_file: the copy saveGamestate took before the last makeMove
    before,      \* history: the position that makeMove was applied to
    made,        \* history: the move last handed to makeMove (once it is
                 \* taken back, its flags and pieces only)
    op,          \* history: the operation that led to this state
    plies,       \* number of moves made and not undone (bounds the run)
    perft_depth, \* output: the depth of the perft just run, else 0
    perft_count, \* output: the count that perft printed, else 0
    zobrist_ready, \* whether init_zobrist_tables has filled the code tables
    layout,      \* the build: what the linker put behind enpassantCodes
    hash_table,  \* the tt array: the slots written, and the state of the rest
    hash,        \* debug_update: initial_hash
    undone_hash, \* debug_update: undone_hash
    best_move,   \* output: the move the last search returned
    best_score,  \* output: *best_score of the last findBestMove
    searched     \* history: the depth of the last search and how many ran

\* a ^ b
bxor(a, b) == (a \ b) \cup (b \ a)

\* the value of an int bit field such as 0b1111, as its set of bits
init_board ==
    LET pbb == [i \in 0..11 |->
                  CASE i = 0 -> shl(0..7, 8)
                    [] i = 1 -> shl(0..7, 48)
                    [] i = 2 -> {1, 6}
                    [] i = 3 -> shl({1, 6}, 56)
                    [] i = 4 -> {2, 5}
                    [] i = 5 -> shl({2, 5}, 56)
                    [] i = 6 -> {0, 7}
                    [] i = 7 -> shl({0, 7}, 56)
                    [] i = 8 -> {4}
                    [] i = 9 -> shl({4}, 56)
                    [] i = 10 -> {3}
                    [] i = 11 -> shl({3}, 56)]
        cbb == [c \in 0..1 |-> IF c = WHITE THEN 0..15 ELSE shl(0..15, 48)]
    IN [piece_bb |-> pbb,
        color_bb |-> cbb,
        all_bb |-> bxor(cbb[WHITE], cbb[BLACK]),
        whose_turn |-> 0,
        en_passant |-> {},
        halfmove_counter |-> 0,
        moves |-> 0,
        castling |-> {0, 1, 2, 3}]

clear_bitboards ==
    [piece_bb |-> [i \in 0..11 |-> {}],
     color_bb |-> [c \in 0..1 |-> {}],
     all_bb |-> {},
     whose_turn |-> 0,
     en_passant |-> {},
     halfmove_counter |-> 0,
     moves |-> 0,
     castling |-> {}]

\* ------------------------------------------------------------------------
\* Magic attack tables (magic.c)
\* ------------------------------------------------------------------------
rank1 == 0..7
rank8 == 56..63
fileA == {s \in Squares : s % 8 = 7}
fileH == {s \in Squares : s % 8 = 0}
empty == {}

get_edge_mask(sq) ==
    ((rank1 \cup rank8) \ shl(rank1, 8 * (sq \div 8)))
        \cup ((fileA \cup fileH) \ shl(fileH, sq % 8))

\* init_rook_masks / init_bishop_masks
rookMasks ==
    [sq \in Squares |-> rookAttacks({sq}, bnot(empty)) \ get_edge_mask(sq)]
bishopMasks ==
    [sq \in Squares |-> bishopAttacks({sq}, bnot(empty)) \ get_edge_mask(sq)]

\* occupancies[i] < occupancies[j] in the enumeration order of
\* findMagicNumber and init_rook_tables (bit k of i is the k-th mask bit)
OccBefore(o1, o2) ==
    /\ o1 # o2
    /\ (CHOOSE s \in bxor(o1, o2) : \A t \in bxor(o1, o2) : t <= s) \in o2

\* (occupancy * magics[sq]) >> (64 - relevantBits).  The multiplier is a
\* rand() value, so the index function is known only through the table
\* slots it makes occupancies share: rookMagics holds, per run, the records
\* [sq, occ, owner] of occupancies occ that share their slot with a later
\* written occupancy owner.  A slot is named by its last writer.
MagicIndex(sq, relevantOccupancy) ==
    IF \E c \in rookMagics : c.sq = sq /\ c.occ = relevantOccupancy
    THEN (CHOOSE c \in rookMagics : c.sq = sq /\ c.occ = relevantOccupancy).owner
    ELSE relevantOccupancy

\* init_rook_tables: attacks[sq][index] = rookAttacks(1ULL << sq, ~occupancy),
\* the last occupancy written to a slot wins
rookAttacksTable(sq, index) == rookAttacks({sq}, bnot(index))

magicRookAttacks(rook_sq, occupancy) ==
    rookAttacksTable(rook_sq, MagicIndex(rook_sq, occupancy \cap rookMasks[rook_sq]))

\* init_bishop_magics is empty: bishopMagics stays all zero and nothing ever
\* writes bishopAttacksTable
bishopMagics == [sq \in Squares |-> 0]
bishopAttacksTable(sq, index) == {}
magicBishopAttacks(bishop_sq, all_bb) ==
    bishopAttacksTable(bishop_sq,
        IF bishopMagics[bishop_sq] = 0 THEN 0
        ELSE Cardinality(bxor(all_bb \cup bishopMasks[bishop_sq], {0, 1, 2})))

\* queen = rook | bishop of the magic subsystem
magicQueenAttacks(sq, occupancy) ==
    magicRookAttacks(sq, occupancy) \cup magicBishopAttacks(sq, occupancy)

\* ------------------------------------------------------------------------
\* Moves (bitboards.c)
\* ------------------------------------------------------------------------
tabooBoard(g) ==
    LET color == g.whose_turn
        foe == 1 - color
        empt == bnot(g.all_bb)
        pawn_attacks == IF color # 0 THEN wpAttacks(g.piece_bb[2 * pawn + foe])
                        ELSE bpAttacks(g.piece_bb[2 * pawn + foe])
    IN pawn_attacks
         \cup knightAttacks(g.piece_bb[2 * knight + foe])
         \cup bishopAttacks(g.piece_bb[2 * bishop + foe], empt)
         \cup rookAttacks(g.piece_bb[2 * rook + foe], empt)
         \cup queenAttacks(g.piece_bb[2 * queen + foe], empt)
         \cup kingAttacks(g.piece_bb[2 * king + foe])

Bit(b) == IF b THEN 1 ELSE 0

\* the packed int, field by field
encodeMove(source_bb, dest_bb, piec, promoteTo, captureFlag, doubleFlag, enPassantFlag, castleFlag, turnFlag, capturedPiec) ==
    [source |-> bbToSq(source_bb),
     dest |-> bbToSq(dest_bb),
     piec |-> piec % 16,
     promote |-> promoteTo % 16,
     capture |-> Bit(captureFlag),
     double |-> Bit(doubleFlag),
     enPassant |-> Bit(enPassantFlag),
     castle |-> Bit(castleFlag),
     turn |-> Bit(turnFlag),
     captured |-> capturedPiec % 16]

decodeSource(move) == move.source
decodeDest(move) == move.dest
decodePiece(move) == move.piec
decodePromote(move) == move.promote
decodeCapture(move) == move.capture
decodeDouble(move) == move.double
decodeEnPassant(move) == move.enPassant
decodeCastle(move) == move.castle
decodeTurn(move) == move.turn
decodeCapturedPiece(move) == move.captured

\* the int 0 as a move: what a zeroed or never assigned move decodes to
NoMove == encodeMove({h1}, {h1}, pawn, pawn, FALSE, FALSE, FALSE, FALSE, FALSE, pawn)

\* the switch of generateAllMoves: all attacks of one piece, friendly fire off
PieceAttacks(g, piec, source_sq) ==
    LET color == g.whose_turn
        foe == 1 - color
        empt == bnot(g.all_bb)
        source_bb == {source_sq}
        friendlyFireMask == bnot(g.color_bb[color])
        attacks_bb ==
          CASE piec = pawn ->
                 IF color # 0
                 THEN bpPushes(source_bb, empt)
                        \cup (bpAttacks(source_bb) \cap g.color_bb[foe])
                        \cup (bpAttacks(source_bb)
                                \cap enPassantAttacks(source_bb, color, g.en_passant))
                 ELSE wpPushes(source_bb, empt)
                        \cup (wpAttacks(source_bb) \cap g.color_bb[foe])
                        \cup (wpAttacks(source_bb)
                                \cap enPassantAttacks(source_bb, color, g.en_passant))
            [] piec = knight -> knightAttacks(source_bb)
            [] piec = bishop -> magicBishopAttacks(source_sq, g.all_bb)
            [] piec = rook -> magicRookAttacks(source_sq, g.all_bb)
            [] piec = queen -> magicQueenAttacks(source_sq, g.all_bb)
            [] piec = king ->
                 LET kingside_castle == (2 * foe + 1) \in g.castling
                     queenside_castle == (2 * foe) \in g.castling
                 IN kingAttacks(source_bb)
                      \cup (IF kingside_castle THEN shr(source_bb, 2) \cap notGH ELSE {})
                      \cup (IF queenside_castle THEN shl(source_bb, 2) \cap notAB ELSE {})
    IN attacks_bb \cap friendlyFireMask

\* the three nested loops of generateAllMoves, flattened: <<piec, source, dest>>
RECURSIVE FlattenRange(_, _, _)
FlattenRange(ss, lo, hi) ==
    IF lo > hi THEN <<>>
    ELSE IF lo = hi THEN ss[lo]
    ELSE FlattenRange(ss, lo, (lo + hi) \div 2)
           \o FlattenRange(ss, (lo + hi) \div 2 + 1, hi)
Flatten(ss) == FlattenRange(ss, 1, Len(ss))

MoveTargets(g) ==
    LET color == g.whose_turn
        perSource(piec, src) ==
            CHOOSE ts \in {[k \in 1..Len(ds) |-> <<piec, src, ds[k]>>] :
                             ds \in {BitsAscending(PieceAttacks(g, piec, src))}} : TRUE
        perPiece(piec) ==
            CHOOSE ts \in {Flatten([k \in 1..Len(srcs) |-> perSource(piec, srcs[k])]) :
                             srcs \in {BitsAscending(g.piece_bb[2 * piec + color])}} : TRUE
    IN Flatten([p \in 1..6 |-> perPiece(p - 1)])

\* the piece found by the inner "for (piece p = pawn; p <= king; p++)" scan
CapturedAt(g, foe, currAttack_bb, capturedPiec) ==
    LET hit == {p \in pawn..king : g.piece_bb[2 * p + foe] \cap currAttack_bb # {}}
    IN IF hit = {} THEN capturedPiec
       ELSE CHOOSE p \in hit : \A q \in hit : p <= q

\* body of the innermost loop for the k-th target; capturedPiec is the
\* variable that is only rewritten on a capture
RECURSIVE GenMoves(_, _, _, _, _)
GenMoves(g, targets, k, hi, st) ==
    IF k > hi THEN st
    ELSE IF k < hi
    THEN LET mid == (k + hi) \div 2
         IN CHOOSE st2 \in {GenMoves(g, targets, mid + 1, hi, st1) :
                               st1 \in {GenMoves(g, targets, k, mid, st)}} : TRUE
    ELSE
      LET color == g.whose_turn
          foe == 1 - color
          empt == bnot(g.all_bb)
          friendlyFireMask == bnot(g.color_bb[color])
          piec == targets[k][1]
          source_bb == {targets[k][2]}
          currAttack_bb == {targets[k][3]}
          captureFlag == currAttack_bb \cap g.color_bb[foe] # {}
          capturedPiec == IF captureFlag
                          THEN CapturedAt(g, foe, currAttack_bb, st.capturedPiec)
                          ELSE st.capturedPiec
          doubleFlag == (shl(currAttack_bb, 16) \cap source_bb # {}
                           \/ shr(currAttack_bb, 16) \cap source_bb # {})
                        /\ piec = pawn
          enPassantFlag == g.en_passant \cap currAttack_bb # {} /\ piec = pawn
          castleFlag == (shl(currAttack_bb, 2) \cap source_bb # {}
                           \/ shr(currAttack_bb, 2) \cap source_bb # {})
                        /\ piec = king
          direction == Bit(shr(currAttack_bb, 2) \cap source_bb # {})
          which_rook_bb == {7 * direction + 56 * color}
          rook_captures == rookAttacks(which_rook_bb, empt) \cap source_bb
          taboo == tabooBoard(g)
          start_check == source_bb \cap taboo
          intermediate_sq ==
              shr(IF targets[k][2] > targets[k][3] THEN source_bb ELSE currAttack_bb, 1)
          intermediate_check == intermediate_sq \cap taboo \cap friendlyFireMask
          ends_check == currAttack_bb \cap taboo
          skip == castleFlag
                    /\ (rook_captures = {} \/ start_check # {}
                          \/ intermediate_check # {} \/ ends_check # {})
          promoteFlag == piec = pawn
                           /\ (rank1 \cap currAttack_bb # {} \/ rank8 \cap currAttack_bb # {})
          mv(promoteTo) == encodeMove(source_bb, currAttack_bb, piec, promoteTo,
                                      captureFlag, doubleFlag, enPassantFlag,
                                      castleFlag, color # 0, capturedPiec)
          emitted == IF skip THEN <<>>
                     ELSE IF promoteFlag
                          THEN <<mv(knight), mv(bishop), mv(rook), mv(queen)>>
                          ELSE <<mv(pawn)>>
      IN [moves |-> st.moves \o emitted, capturedPiec |-> capturedPiec]

generateAllMoves(g) ==
    CHOOSE move_list \in
        {GenMoves(g, targets, 1, Len(targets),
                  [moves |-> <<>>, capturedPiec |-> pawn]).moves :
             targets \in {MoveTargets(g)}} : TRUE

\* makeMove that leaves the pawn on the square where it promotes
makeMove_keepsPawn(move, g) ==
    LET source_bb == {decodeSource(move)}
        dest_bb == {decodeDest(move)}
        piec == decodePiece(move)
        promoteTo == decodePromote(move)
        captureFlag == decodeCapture(move)
        doubleFlag == decodeDouble(move)
        enPassantFlag == decodeEnPassant(move)
        castleFlag == decodeCastle(move)
        color == g.whose_turn
        foe == 1 - color
        \* move in pieceboard, own colour, overall
        p1 == [g.piece_bb EXCEPT ![2 * piec + color] = (@ \ source_bb) \cup dest_bb]
        c1 == [g.color_bb EXCEPT ![color] = (@ \ source_bb) \cup dest_bb]
        a1b == (g.all_bb \ source_bb) \cup dest_bb
        \* capture
        capturedPiec == decodeCapturedPiece(move)
        c2 == IF captureFlag # 0 THEN [c1 EXCEPT ![foe] = @ \ dest_bb] ELSE c1
        p2 == IF captureFlag # 0
              THEN [p1 EXCEPT ![capturedPiec * 2 + foe] = @ \ dest_bb] ELSE p1
        \* double push
        ep == IF doubleFlag # 0
              THEN (IF color # 0 THEN shl(dest_bb, 8) ELSE shl(source_bb, 8))
              ELSE {}
        \* en passant
        captured_pawn == IF color # 0 THEN shl(dest_bb, 8) ELSE shr(dest_bb, 8)
        p3 == IF enPassantFlag # 0
              THEN [p2 EXCEPT ![pawn * 2 + foe] = @ \ captured_pawn] ELSE p2
        c3 == IF enPassantFlag # 0 THEN [c2 EXCEPT ![foe] = @ \ captured_pawn] ELSE c2
        a3 == IF enPassantFlag # 0 THEN a1b \ captured_pawn ELSE a1b
        \* castling
        doCastle == g.castling # {} /\ castleFlag # 0
        direction == Bit(shr(dest_bb, 2) \cap source_bb # {})
        which_rook_bb == {7 * direction + 56 * color}
        intermediate_sq ==
            shr(IF decodeSource(move) > decodeDest(move) THEN source_bb ELSE dest_bb, 1)
        p4 == IF doCastle
              THEN [p3 EXCEPT ![rook * 2 + color] = (@ \ which_rook_bb) \cup intermediate_sq]
              ELSE p3
        c4 == IF doCastle
              THEN [c3 EXCEPT ![color] = (@ \ which_rook_bb) \cup intermediate_sq]
              ELSE c3
        a4 == IF doCastle THEN (a3 \ which_rook_bb) \cup intermediate_sq ELSE a3
        ownRights == {2 * foe, 2 * foe + 1}
        k1 == IF doCastle THEN g.castling \ ownRights ELSE g.castling
        k2 == IF piec = king THEN k1 \ ownRights ELSE k1
        k3 == IF h1 \in source_bb \cup dest_bb THEN k2 \ {3} ELSE k2
        k4 == IF a1 \in source_bb \cup dest_bb THEN k3 \ {2} ELSE k3
        k5 == IF h8 \in source_bb \cup dest_bb THEN k4 \ {1} ELSE k4
        k6 == IF a8 \in source_bb \cup dest_bb THEN k5 \ {0} ELSE k5
        castling == IF g.castling # {} THEN k6 ELSE g.castling
        \* promotion
        p5 == IF promoteTo # 0
              THEN [p4 EXCEPT ![2 * promoteTo + color] = @ \cup dest_bb]
              ELSE p4
    IN [piece_bb |-> p5,
        color_bb |-> c4,
        all_bb |-> a4,
        whose_turn |-> foe,
        en_passant |-> ep,
        halfmove_counter |-> g.halfmove_counter,
        moves |-> IF 1 - g.whose_turn # 0 THEN g.moves + 1 ELSE g.moves,
        castling |-> castling]

\* makeMove that clears the right of a corner only when the move leaves it
makeMove_sourceCornersOnly(move, g) ==
    LET source_bb == {decodeSource(move)}
        dest_bb == {decodeDest(move)}
        piec == decodePiece(move)
        promoteTo == decodePromote(move)
        captureFlag == decodeCapture(move)
        doubleFlag == decodeDouble(move)
        enPassantFlag == decodeEnPassant(move)
        castleFlag == decodeCastle(move)
        color == g.whose_turn
        foe == 1 - color
        \* move in pieceboard, own colour, overall
        p1 == [g.piece_bb EXCEPT ![2 * piec + color] = (@ \ source_bb) \cup dest_bb]
        c1 == [g.color_bb EXCEPT ![color] = (@ \ source_bb) \cup dest_bb]
        a1b == (g.all_bb \ source_bb) \cup dest_bb
        \* capture
        capturedPiec == decodeCapturedPiece(move)
        c2 == IF captureFlag # 0 THEN [c1 EXCEPT ![foe] = @ \ dest_bb] ELSE c1
        p2 == IF captureFlag # 0
              THEN [p1 EXCEPT ![capturedPiec * 2 + foe] = @ \ dest_bb] ELSE p1
        \* double push
        ep == IF doubleFlag # 0
              THEN (IF color # 0 THEN shl(dest_bb, 8) ELSE shl(source_bb, 8))
              ELSE {}
        \* en passant
        captured_pawn == IF color # 0 THEN shl(dest_bb, 8) ELSE shr(dest_bb, 8)
        p3 == IF enPassantFlag # 0
              THEN [p2 EXCEPT ![pawn * 2 + foe] = @ \ captured_pawn] ELSE p2
        c3 == IF enPassantFlag # 0 THEN [c2 EXCEPT ![foe] = @ \ captured_pawn] ELSE c2
        a3 == IF enPassantFlag # 0 THEN a1b \ captured_pawn ELSE a1b
        \* castling
        doCastle == g.castling # {} /\ castleFlag # 0
        direction == Bit(shr(dest_bb, 2) \cap source_bb # {})
        which_rook_bb == {7 * direction + 56 * color}
        intermediate_sq ==
            shr(IF decodeSource(move) > decodeDest(move) THEN source_bb ELSE dest_bb, 1)
        p4 == IF doCastle
              THEN [p3 EXCEPT ![rook * 2 + color] = (@ \ which_rook_bb) \cup intermediate_sq]
              ELSE p3
        c4 == IF doCastle
              THEN [c3 EXCEPT ![color] = (@ \ which_rook_bb) \cup intermediate_sq]
              ELSE c3
        a4 == IF doCastle THEN (a3 \ which_rook_bb) \cup intermediate_sq ELSE a3
        ownRights == {2 * foe, 2 * foe + 1}
        k1 == IF doCastle THEN g.castling \ ownRights ELSE g.castling
        k2 == IF piec = king THEN k1 \ ownRights ELSE k1
        k3 == IF h1 \in source_bb THEN k2 \ {3} ELSE k2
        k4 == IF a1 \in source_bb THEN k3 \ {2} ELSE k3
        k5 == IF h8 \in source_bb THEN k4 \ {1} ELSE k4
        k6 == IF a8 \in source_bb THEN k5 \ {0} ELSE k5
        castling == IF g.castling # {} THEN k6 ELSE g.castling
        \* promotion
        p5 == IF promoteTo # 0
              THEN [p4 EXCEPT ![2 * pawn + color] = @ \ dest_bb,
                              ![2 * promoteTo + color] = @ \cup dest_bb]
              ELSE p4
    IN [piece_bb |-> p5,
        color_bb |-> c4,
        all_bb |-> a4,
        whose_turn |-> foe,
        en_passant |-> ep,
        halfmove_counter |-> g.halfmove_counter,
        moves |-> IF 1 - g.whose_turn # 0 THEN g.moves + 1 ELSE g.moves,
        castling |-> castling]

makeMove(move, g) ==
    LET source_bb == {decodeSource(move)}
        dest_bb == {decodeDest(move)}
        piec == decodePiece(move)
        promoteTo == decodePromote(move)
        captureFlag == decodeCapture(move)
        doubleFlag == decodeDouble(move)
        enPassantFlag == decodeEnPassant(move)
        castleFlag == decodeCastle(move)
        color == g.whose_turn
        foe == 1 - color
        \* move in pieceboard, own colour, overall
        p1 == [g.piece_bb EXCEPT ![2 * piec + color] = (@ \ source_bb) \cup dest_bb]
        c1 == [g.color_bb EXCEPT ![color] = (@ \ source_bb) \cup dest_bb]
        a1b == (g.all_bb \ source_bb) \cup dest_bb
        \* capture
        capturedPiec == decodeCapturedPiece(move)
        c2 == IF captureFlag # 0 THEN [c1 EXCEPT ![foe] = @ \ dest_bb] ELSE c1
        p2 == IF captureFlag # 0
              THEN [p1 EXCEPT ![capturedPiec * 2 + foe] = @ \ dest_bb] ELSE p1
        \* double push
        ep == IF doubleFlag # 0
              THEN (IF color # 0 THEN shl(dest_bb, 8) ELSE shl(source_bb, 8))
              ELSE {}
        \* en passant
        captured_pawn == IF color # 0 THEN shl(dest_bb, 8) ELSE shr(dest_bb, 8)
        p3 == IF enPassantFlag # 0
              THEN [p2 EXCEPT ![pawn * 2 + foe] = @ \ captured_pawn] ELSE p2
        c3 == IF enPassantFlag # 0 THEN [c2 EXCEPT ![foe] = @ \ captured_pawn] ELSE c2
        a3 == IF enPassantFlag # 0 THEN a1b \ captured_pawn ELSE a1b
        \* castling
        doCastle == g.castling # {} /\ castleFlag # 0
        direction == Bit(shr(dest_bb, 2) \cap source_bb # {})
        which_rook_bb == {7 * direction + 56 * color}
        intermediate_sq ==
            shr(IF decodeSource(move) > decodeDest(move) THEN source_bb ELSE dest_bb, 1)
        p4 == IF doCastle
              THEN [p3 EXCEPT ![rook * 2 + color] = (@ \ which_rook_bb) \cup intermediate_sq]
              ELSE p3
        c4 == IF doCastle
              THEN [c3 EXCEPT ![color] = (@ \ which_rook_bb) \cup intermediate_sq]
              ELSE c3
        a4 == IF doCastle THEN (a3 \ which_rook_bb) \cup intermediate_sq ELSE a3
        ownRights == {2 * foe, 2 * foe + 1}
        k1 == IF doCastle THEN g.castling \ ownRights ELSE g.castling
        k2 == IF piec = king THEN k1 \ ownRights ELSE k1
        k3 == IF h1 \in source_bb \cup dest_bb THEN k2 \ {3} ELSE k2
        k4 == IF a1 \in source_bb \cup dest_bb THEN k3 \ {2} ELSE k3
        k5 == IF h8 \in source_bb \cup dest_bb THEN k4 \ {1} ELSE k4
        k6 == IF a8 \in source_bb \cup dest_bb THEN k5 \ {0} ELSE k5
        castling == IF g.castling # {} THEN k6 ELSE g.castling
        \* promotion
        p5 == IF promoteTo # 0
              THEN [p4 EXCEPT ![2 * pawn + color] = @ \ dest_bb,
                              ![2 * promoteTo + color] = @ \cup dest_bb]
              ELSE p4
    IN [piece_bb |-> p5,
        color_bb |-> c4,
        all_bb |-> a4,
        whose_turn |-> foe,
        en_passant |-> ep,
        halfmove_counter |-> g.halfmove_counter,
        moves |-> IF 1 - g.whose_turn # 0 THEN g.moves + 1 ELSE g.moves,
        castling |-> castling]

\* checkCheck with the pawn attacks of the wrong colour
checkCheck_pawnsBackwards(g) ==
    LET color == g.whose_turn
        foe == 1 - color
        king_bb == g.piece_bb[2 * king + foe]
        empt == bnot(g.all_bb)
        pawn_attacks == IF color # 0 THEN wpAttacks(g.piece_bb[2 * pawn + color])
                        ELSE bpAttacks(g.piece_bb[2 * pawn + color])
    IN (pawn_attacks
          \cup knightAttacks(g.piece_bb[2 * knight + color])
          \cup bishopAttacks(g.piece_bb[2 * bishop + color], empt)
          \cup rookAttacks(g.piece_bb[2 * rook + color], empt)
          \cup queenAttacks(g.piece_bb[2 * queen + color], empt)
          \cup kingAttacks(g.piece_bb[2 * king + color])) \cap king_bb

\* nonzero iff the king of the side that is not to move is attacked
checkCheck(g) ==
    LET color == g.whose_turn
        foe == 1 - color
        king_bb == g.piece_bb[2 * king + foe]
        empt == bnot(g.all_bb)
        pawn_attacks == IF color # 0 THEN bpAttacks(g.piece_bb[2 * pawn + color])
                        ELSE wpAttacks(g.piece_bb[2 * pawn + color])
    IN (pawn_attacks
          \cup knightAttacks(g.piece_bb[2 * knight + color])
          \cup bishopAttacks(g.piece_bb[2 * bishop + color], empt)
          \cup rookAttacks(g.piece_bb[2 * rook + color], empt)
          \cup queenAttacks(g.piece_bb[2 * queen + color], empt)
          \cup kingAttacks(g.piece_bb[2 * king + color])) \cap king_bb

\* saveGamestate without the line that copies castling
saveGamestate_noCastling(g) ==
    [all_bb |-> g.all_bb,
     color_bb |-> g.color_bb,
     piece_bb |-> g.piece_bb,
     whose_turn |-> g.whose_turn,
     castling |-> {},
     en_passant |-> g.en_passant,
     halfmove_counter |-> g.halfmove_counter,
     moves |-> g.moves]

saveGamestate(g) ==
    [all_bb |-> g.all_bb,
     color_bb |-> g.color_bb,
     piece_bb |-> g.piece_bb,
     whose_turn |-> g.whose_turn,
     castling |-> g.castling,
     en_passant |-> g.en_passant,
     halfmove_counter |-> g.halfmove_counter,
     moves |-> g.moves]

\* undoPreviousMove without the line that restores all_bb
undoPreviousMove_noAll(g, copy_address) ==
    [g EXCEPT !.color_bb = copy_address.color_bb,
              !.piece_bb = copy_address.piece_bb,
              !.whose_turn = copy_address.whose_turn,
              !.castling = copy_address.castling,
              !.en_passant = copy_address.en_passant,
              !.halfmove_counter = copy_address.halfmove_counter,
              !.moves = copy_address.moves]

undoPreviousMove(g, copy_address) ==
    [g EXCEPT !.all_bb = copy_address.all_bb,
              !.color_bb = copy_address.color_bb,
              !.piece_bb = copy_address.piece_bb,
              !.whose_turn = copy_address.whose_turn,
              !.castling = copy_address.castling,
              !.en_passant = copy_address.en_passant,
              !.halfmove_counter = copy_address.halfmove_counter,
              !.moves = copy_address.moves]

\* the loop of generateLegalMoves without the undo before the next move
RECURSIVE LegalLoop_noUndo(_, _, _, _, _)
LegalLoop_noUndo(pseudo_legal, lo, hi, st, save_file) ==
    IF lo > hi THEN st
    ELSE IF lo = hi
    THEN LET tried == makeMove(pseudo_legal[lo], st.gs)
         IN [move_list |-> IF checkCheck(tried) = {}
                           THEN Append(st.move_list, pseudo_legal[lo])
                           ELSE st.move_list,
             gs |-> tried]
    ELSE LET mid == (lo + hi) \div 2
         IN CHOOSE st2 \in {LegalLoop_noUndo(pseudo_legal, mid + 1, hi, st1, save_file) :
                               st1 \in {LegalLoop_noUndo(pseudo_legal, lo, mid, st, save_file)}} : TRUE

\* the loop of generateLegalMoves over pseudo_legal[lo..hi]: st is the list
\* filled so far and the position the loop has in hand, save_file the copy
\* taken before the loop.  A range of several moves is its first half, then
\* its second half from where the first half ended.
RECURSIVE LegalLoop(_, _, _, _, _)
LegalLoop(pseudo_legal, lo, hi, st, save_file) ==
    IF lo > hi THEN st
    ELSE IF lo = hi
    THEN CHOOSE st2 \in
            {[move_list |-> IF checkCheck(tried) = {}
                            THEN Append(st.move_list, pseudo_legal[lo])
                            ELSE st.move_list,
              gs |-> undoPreviousMove(tried, save_file)] :
                 tried \in {makeMove(pseudo_legal[lo], st.gs)}} : TRUE
    ELSE LET mid == (lo + hi) \div 2
         IN CHOOSE st2 \in {LegalLoop(pseudo_legal, mid + 1, hi, st1, save_file) :
                               st1 \in {LegalLoop(pseudo_legal, lo, mid, st, save_file)}} : TRUE

\* generateLegalMoves: the list it fills and the position it leaves
generateLegalMovesRun(g) ==
    CHOOSE run \in
        {LegalLoop(pseudo_legal, 1, Len(pseudo_legal),
                   [move_list |-> <<>>, gs |-> g], save_file) :
             pseudo_legal \in {generateAllMoves(g)},
             save_file \in {saveGamestate(g)}} : TRUE
generateLegalMoves(g) == generateLegalMovesRun(g).move_list

\* checkGameover: what it returns, what it prints and the position it leaves.
\* The loop reads gs->color_bb[2 * piec] and [2 * piec + 1] for piec from pawn
\* to queen, the words 0..9 from color_bb on: the two colour boards, all_bb,
\* whose_turn with castling, en_passant, halfmove_counter with moves, and four
\* words behind the game_state; beyond tells whether one of those four is
\* nonzero
checkGameover(g, beyond) ==
    LET material_flag ==
            IF \/ g.color_bb[0] # {} \/ g.color_bb[1] # {}
               \/ g.all_bb # {}
               \/ g.whose_turn # 0 \/ g.castling # {}
               \/ g.en_passant # {}
               \/ g.halfmove_counter # 0 \/ g.moves # 0
               \/ beyond
            THEN 0 ELSE 1
    IN IF material_flag # 0
       THEN [ret |-> 1, says |-> "gameover_draw", gs |-> g]
       ELSE CHOOSE r \in
              {IF Len(run.move_list) = 0
               THEN CHOOSE r2 \in
                      {[ret |-> 1,
                        says |-> IF checkCheck(flipped) # {}
                                 THEN "gameover_checkmate"
                                 ELSE "gameover_stalemate",
                        gs |-> flipped] :
                          flipped \in {[run.gs EXCEPT !.whose_turn = 1 - @]}} : TRUE
               ELSE [ret |-> 0, says |-> "game_continues", gs |-> run.gs] :
                   run \in {generateLegalMovesRun(g)}} : TRUE

\* perft: the count it returns and the position it leaves
RECURSIVE perftLoop(_, _, _, _, _)
RECURSIVE perftRun(_, _)
perftRun(depth, g) ==
    IF depth = 0 THEN [count |-> 1, gs |-> g]
    ELSE CHOOSE run \in
            {perftLoop(depth, gen.move_list, 1, Len(gen.move_list),
                       [count |-> 0, gs |-> gen.gs]) :
                 gen \in {generateLegalMovesRun(g)}} : TRUE
perftLoop(depth, move_list, lo, hi, st) ==
    IF lo > hi THEN st
    ELSE IF lo = hi
    THEN CHOOSE st2 \in
            {[count |-> st.count + sub.count,
              gs |-> undoPreviousMove(sub.gs, saveGamestate(st.gs))] :
                 sub \in {perftRun(depth - 1, tried) :
                             tried \in {makeMove(move_list[lo], st.gs)}}} : TRUE
    ELSE LET mid == (lo + hi) \div 2
         IN CHOOSE st2 \in {perftLoop(depth, move_list, mid + 1, hi, st1) :
                               st1 \in {perftLoop(depth, move_list, lo, mid, st)}} : TRUE
perft(depth, g) == perftRun(depth, g).count

\* ------------------------------------------------------------------------
\* FEN input (interface: parse_fen, parse_extras)
\* ------------------------------------------------------------------------
\* the character codes of the characters that occur in the inputs
Ord(ch) ==
    CASE ch = "" -> 0 [] ch = "\n" -> 10 [] ch = " " -> 32 [] ch = "-" -> 45 [] ch = "/" -> 47
      [] ch = "0" -> 48 [] ch = "1" -> 49 [] ch = "2" -> 50 [] ch = "3" -> 51
      [] ch = "4" -> 52 [] ch = "5" -> 53 [] ch = "6" -> 54 [] ch = "7" -> 55
      [] ch = "8" -> 56 [] ch = "9" -> 57
      [] ch = "B" -> 66 [] ch = "K" -> 75 [] ch = "N" -> 78 [] ch = "P" -> 80
      [] ch = "Q" -> 81 [] ch = "R" -> 82
      [] ch = "a" -> 97 [] ch = "b" -> 98 [] ch = "k" -> 107 [] ch = "n" -> 110
      [] ch = "p" -> 112 [] ch = "q" -> 113 [] ch = "r" -> 114 [] ch = "w" -> 119

isdigit(ch) == Ord(ch) >= 48 /\ Ord(ch) <= 57

\* fen[idx] for a C index idx; the terminating 0 is the empty string
At(fen, idx) == IF idx < Len(fen) THEN SubSeq(fen, idx + 1, idx + 1) ELSE ""

\* strchr(map, ch) - map, or -1 when ch does not occur
IndexIn(map, ch) ==
    IF \E i \in 0..(Len(map) - 1) : At(map, i) = ch
    THEN CHOOSE i \in 0..(Len(map) - 1) :
            At(map, i) = ch /\ \A j \in 0..(i - 1) : At(map, j) # ch
    ELSE -1

PIECE_MAP == "PpNnBbRrQqKk"
castle_map == "KQkq"

\* the set of bits of a non-negative number
RECURSIVE BitsFrom(_, _)
BitsFrom(n, k) ==
    IF n = 0 THEN {}
    ELSE (IF n % 2 = 1 THEN {k} ELSE {}) \cup BitsFrom(n \div 2, k + 1)
BitsOf(n) == BitsFrom(n, 0)

\* "while (isdigit(fen[idx])) x = x * 10 + (fen[idx] - '0')": value and end index
RECURSIVE ReadNumber(_, _, _)
ReadNumber(fen, idx, acc) ==
    IF At(fen, idx) # "" /\ isdigit(At(fen, idx))
    THEN ReadNumber(fen, idx + 1, acc * 10 + (Ord(At(fen, idx)) - 48))
    ELSE [value |-> acc, idx |-> idx]

\* the do-while over the castling letters: rights gathered and end index,
\* idx = -1 for "return 1".  Every input is a line read by fgets and ends
\* in "\n", so the loop never meets the terminating 0.
RECURSIVE ReadCastling(_, _, _)
ReadCastling(fen, idx, rights) ==
    LET index == IndexIn(castle_map, At(fen, idx))
    IN IF index >= 0
       THEN ReadCastling(fen, idx + 1, rights \cup {3 - index})
       ELSE IF At(fen, idx) = " " THEN [rights |-> rights, idx |-> idx + 1]
       ELSE [rights |-> rights, idx |-> -1]

\* parse_extras; ret is the value returned, gs the game_state left behind
parse_extras(g, fen, idx0) ==
    LET fail(x) == [ret |-> 1, gs |-> x]
        i1 == idx0 + 1
        turnOk == At(fen, i1) \in {"w", "b"}
        g1 == [g EXCEPT !.whose_turn = IF At(fen, i1) = "w" THEN 0 ELSE 1]
        i2 == i1 + 1
        i3 == i2 + 1
        cast == ReadCastling(fen, i3, g1.castling)
        g2 == IF At(fen, i3) = "-" THEN g1 ELSE [g1 EXCEPT !.castling = cast.rights]
        i4 == IF At(fen, i3) = "-" THEN i3 + 2 ELSE cast.idx
        epn == ReadNumber(fen, i4, 0)
        g3 == IF At(fen, i4) = "-" THEN g2
              ELSE [g2 EXCEPT !.en_passant = BitsOf(epn.value)]
        i5 == IF At(fen, i4) = "-" THEN i4 + 2 ELSE epn.idx + 1
        half == ReadNumber(fen, i5, g3.halfmove_counter)
        g4 == [g3 EXCEPT !.halfmove_counter = half.value]
        i6 == half.idx + 1
        full == ReadNumber(fen, i6, g4.moves)
        g5 == [g4 EXCEPT !.moves = full.value]
    IN IF ~turnOk THEN fail(g)
       ELSE IF At(fen, i2) # " " THEN fail(g1)
       ELSE IF At(fen, i3) = "-" /\ At(fen, i3 + 1) # " " THEN fail(g1)
       ELSE IF At(fen, i3) = " " THEN fail(g1)
       ELSE IF At(fen, i3) # "-" /\ cast.idx = -1 THEN fail(g2)
       ELSE IF At(fen, i4) = "-" /\ At(fen, i4 + 1) # " " THEN fail(g2)
       ELSE IF At(fen, i4) = " " THEN fail(g2)
       ELSE IF At(fen, i4) # "-" /\ ~isdigit(At(fen, i4)) THEN fail(g2)
       ELSE IF At(fen, i4) # "-" /\ At(fen, epn.idx) # " " THEN fail(g3)
       ELSE IF ~isdigit(At(fen, i5)) THEN fail(g3)
       ELSE IF At(fen, half.idx) # " " THEN fail(g4)
       ELSE IF ~isdigit(At(fen, i6)) THEN fail(g4)
       ELSE IF full.idx # Len(fen) - 1 THEN fail(g5)
       ELSE [ret |-> 0, gs |-> g5]

\* the for loop of parse_fen from index idx on, pos the square bitboard
RECURSIVE FenLoop(_, _, _, _)
FenLoop(g, fen, idx, pos) ==
    IF idx >= Len(fen) THEN [ret |-> 0, gs |-> g]
    ELSE
      LET ch == At(fen, idx)
          index == IndexIn(PIECE_MAP, ch)
          num2 == Ord(At(fen, idx + 1)) - 48
          placed == [g EXCEPT !.piece_bb[index] = bxor(@, pos),
                              !.color_bb[index % 2] = bxor(@, pos),
                              !.all_bb = bxor(@, pos)]
      IN IF ch = "/" THEN FenLoop(g, fen, idx + 1, pos)
         ELSE IF 0 < Ord(ch) - 48 /\ Ord(ch) - 48 <= 8
         THEN IF idx # Len(fen) - 1 /\ 0 < num2 /\ num2 < 10
              THEN [ret |-> 1, gs |-> g]
              ELSE FenLoop(g, fen, idx + 1, shr(pos, Ord(ch) - 48))
         ELSE IF index >= 0 THEN FenLoop(placed, fen, idx + 1, shr(pos, 1))
         ELSE IF ch = " " THEN parse_extras(g, fen, idx)
         ELSE [ret |-> 1, gs |-> g]

parse_fen(fen) == FenLoop(clear_bitboards, fen, 0, {63})

\* ------------------------------------------------------------------------
\* Zobrist codes (transposition.c).  A U64 is the set of its bits.
\* ------------------------------------------------------------------------
\* byte i of a U64
RECURSIVE Weigh(_)
Weigh(bits) ==
    IF bits = {} THEN 0
    ELSE LET k == CHOOSE b \in bits : TRUE IN 2^k + Weigh(bits \ {k})
ByteOf(x, i) == Weigh({b - 8 * i : b \in {c \in x : c \div 8 = i}})

\* the bytes of 0x2545F4914F6CDD1DULL, least significant first
Multiplier == <<29, 221, 108, 79, 145, 244, 69, 37>>

\* x * 0x2545F4914F6CDD1DULL on 64 bits: schoolbook product of the bytes,
\* the carry out of byte 7 is lost
RECURSIVE Column(_, _, _)
Column(x, k, i) ==
    IF i > k THEN 0
    ELSE ByteOf(x, i) * Multiplier[k - i + 1] + Column(x, k, i + 1)
RECURSIVE TimesMultiplier(_, _, _)
TimesMultiplier(x, k, carry) ==
    IF k = 8 THEN {}
    ELSE LET col == carry + Column(x, k, 0)
         IN {8 * k + j : j \in BitsOf(col % 256)}
            \cup TimesMultiplier(x, k + 1, col \div 256)

random_bitstring(x) ==
    LET x1 == bxor(x, shr(x, 12))
        x2 == bxor(x1, shl(x1, 25))
        x3 == bxor(x2, shr(x2, 27))
    IN TimesMultiplier(x3, 0, 0)

\* n codes, each random_bitstring of the one before
RECURSIVE CodeChain(_, _)
CodeChain(prev, n) ==
    IF n = 0 THEN <<>>
    ELSE IF n = 1 THEN <<random_bitstring(prev)>>
    ELSE LET head == CodeChain(prev, n \div 2)
         IN head \o CodeChain(head[Len(head)], n - n \div 2)

\* the tables as the linker zeroed them ...
zeroed_tables ==
    [pieceCodes |-> [i \in 0..11 |-> [sq \in Squares |-> {}]],
     castlingCodes |-> [i \in 0..3 |-> {}],
     enpassantCodes |-> [i \in 0..7 |-> {}],
     endTurnCode |-> {}]
\* ... and as init_zobrist_tables fills them: one chain from 1 through the
\* piece codes, the castling codes, the en passant codes and the code of the
\* turn
init_zobrist_tables ==
    LET chain == CodeChain({0}, 12 * 64 + 4 + 8 + 1)
    IN [pieceCodes |-> [i \in 0..11 |-> [sq \in Squares |-> chain[64 * i + sq + 1]]],
        castlingCodes |-> [i \in 0..3 |-> chain[12 * 64 + i + 1]],
        enpassantCodes |-> [i \in 0..7 |-> chain[12 * 64 + 4 + i + 1]],
        endTurnCode |-> chain[12 * 64 + 4 + 8 + 1]]

zobrist_tables == IF zobrist_ready THEN init_zobrist_tables ELSE zeroed_tables
pieceCodes == zobrist_tables.pieceCodes
castlingCodes == zobrist_tables.castlingCodes
endTurnCode == zobrist_tables.endTurnCode

\* the builds of the Makefile
Layouts == {"aldan", "aldanprofile"}

\* enpassantCodes[i].  The array has 8 elements; an index outside them reads
\* what the build put around it.  With -O2 (aldan): the code of the turn and
\* padding, the array, the castling codes, the piece codes.  With -O0
\* (aldanprofile): the piece codes, the castling codes, the array, the code
\* of the turn, memory that nothing writes
enpassantCodes(i) ==
    IF i \in 0..7 THEN zobrist_tables.enpassantCodes[i]
    ELSE IF layout = "aldan"
         THEN IF i >= 12 THEN pieceCodes[(i - 12) \div 64][(i - 12) % 64]
              ELSE IF i >= 8 THEN castlingCodes[i - 8]
              ELSE IF i = 0 - 4 THEN endTurnCode ELSE {}
         ELSE IF i = 8 THEN endTurnCode
              ELSE IF i > 8 THEN {}
              ELSE IF i >= 0 - 4 THEN castlingCodes[i + 4]
              ELSE pieceCodes[11][i + 68]

\* the remainder of C: the sign of the dividend
CRem(a, n) == IF a >= 0 THEN a % n ELSE 0 - ((0 - a) % n)

\* h ^ codes[1] ^ codes[2] ...: a bit is set when it is set in an odd number
\* of the operands
XorAll(h, codes) ==
    {b \in Squares :
        (Bit(b \in h) + Cardinality({i \in 1..Len(codes) : b \in codes[i]})) % 2 = 1}

\* current_pos_hash: the piece codes of the occupied squares, and nothing else
current_pos_hash(g) ==
    LET occupied == {is \in (0..11) \X g.all_bb : is[2] \in g.piece_bb[is[1]]}
    IN {b \in Squares :
          Cardinality({is \in occupied : b \in pieceCodes[is[1]][is[2]]}) % 2 = 1}

\* the codes update_hash folds into the hash for a move, in its order; a step
\* it skips is the code 0
MoveCodes(move) ==
    LET source_sq == decodeSource(move)
        dest_sq == decodeDest(move)
        piec == decodePiece(move)
        promoteTo == decodePromote(move)
        captureFlag == decodeCapture(move)
        doubleFlag == decodeDouble(move)
        enPassantFlag == decodeEnPassant(move)
        castleFlag == decodeCastle(move)
        color == decodeTurn(move)
        foe == 1 - color
        capturedPiec == decodeCapturedPiece(move)
        when(cond, code) == IF cond THEN code ELSE {}
        allCastling == XorAll({}, [i \in 1..4 |-> castlingCodes[i - 1]])
    IN <<pieceCodes[2 * piec + color][source_sq],
      pieceCodes[2 * piec + color][dest_sq],
      when(captureFlag # 0, pieceCodes[2 * capturedPiec + foe][dest_sq]),
      when(doubleFlag # 0 /\ color # 0, enpassantCodes(CRem(dest_sq - 8, 8))),
      when(doubleFlag # 0 /\ foe # 0, enpassantCodes(CRem(source_sq - 8, 8))),
      when(enPassantFlag # 0, enpassantCodes(dest_sq)),
      when(promoteTo # pawn, pieceCodes[2 * promoteTo + color][dest_sq]),
      when(promoteTo # pawn, pieceCodes[2 * pawn + color][dest_sq]),
      when(castleFlag # 0, allCastling),
      when(piec = king, allCastling),
      when(source_sq = h1 \/ dest_sq = h1, castlingCodes[0]),
      when(source_sq = a1 \/ dest_sq = a1, castlingCodes[1]),
      when(source_sq = h8 \/ dest_sq = h8, castlingCodes[2]),
      when(source_sq = a8 \/ dest_sq = a8, castlingCodes[3]),
      endTurnCode>>

\* the indices update_hash reads enpassantCodes at for a move
EnpassantIndexes(move) ==
    LET source_sq == decodeSource(move)
        dest_sq == decodeDest(move)
        doubleFlag == decodeDouble(move)
        enPassantFlag == decodeEnPassant(move)
        color == decodeTurn(move)
        foe == 1 - color
    IN (IF doubleFlag # 0 /\ color # 0 THEN {CRem(dest_sq - 8, 8)} ELSE {})
         \cup (IF doubleFlag # 0 /\ foe # 0 THEN {CRem(source_sq - 8, 8)} ELSE {})
         \cup (IF enPassantFlag # 0 THEN {dest_sq} ELSE {})

\* update_hash with "retHash |= code" for every "retHash ^= code"
update_hash_orsCodes(move, currentHash) ==
    currentHash \cup UNION {MoveCodes(move)[i] : i \in 1..Len(MoveCodes(move))}

\* update_hash: every step is "retHash ^= code"
update_hash(move, currentHash) == XorAll(currentHash, MoveCodes(move))


\* ------------------------------------------------------------------------
\* Transposition table (transposition.c)
\* ------------------------------------------------------------------------
BIGNUMBER == 4194304
EXACT == 0
ALPHA == 1
BETA == 2

\* search.c passes NULLMOVE as the best move of every entry; nothing reads
\* the field, and the macro is taken to be the move 0
NULLMOVE == NoMove

\* hash % BIGNUMBER, BIGNUMBER a power of two: the low bits of the hash
modHash(h) == {b \in h : b < 31 /\ 2^b < BIGNUMBER}

\* tt hash_table[BIGNUMBER] before anything is written: zeroes.  The table is
\* the slots written so far and the entry every other slot holds.
static_hash_table ==
    [written |-> <<>>,
     rest |-> [hash_key |-> {}, relativeDepth |-> 0, eval |-> 0,
               flag |-> 0, bestMove |-> NoMove]]

\* init_hash_table: key, depth and eval of every slot; flag and bestMove stay
init_hash_table(t) ==
    LET clear(e) == [e EXCEPT !.hash_key = {}, !.relativeDepth = 0 - 1, !.eval = 0]
    IN [written |-> [s \in DOMAIN t.written |-> clear(t.written[s])],
        rest |-> clear(t.rest)]

\* hash_table[modHash]
SlotOf(t, h) ==
    IF modHash(h) \in DOMAIN t.written THEN t.written[modHash(h)] ELSE t.rest

\* get_eval without the comparison of the key the slot holds
get_eval_anyKey(t, h, relativeDepth, alpha, beta) ==
    LET e == SlotOf(t, h)
    IN IF e.relativeDepth >= relativeDepth
       THEN IF e.flag = EXACT THEN [ret |-> 0, eval |-> e.eval]
            ELSE IF e.flag = ALPHA /\ e.eval <= alpha THEN [ret |-> 0, eval |-> alpha]
            ELSE IF e.flag = BETA /\ e.eval >= beta THEN [ret |-> 0, eval |-> beta]
            ELSE [ret |-> 1]
       ELSE [ret |-> 1]

\* get_eval: ret 0 and the value for *eval, or ret 1 and *eval untouched
get_eval(t, h, relativeDepth, alpha, beta) ==
    LET e == SlotOf(t, h)
    IN IF e.hash_key = h /\ e.relativeDepth >= relativeDepth
       THEN IF e.flag = EXACT THEN [ret |-> 0, eval |-> e.eval]
            ELSE IF e.flag = ALPHA /\ e.eval <= alpha THEN [ret |-> 0, eval |-> alpha]
            ELSE IF e.flag = BETA /\ e.eval >= beta THEN [ret |-> 0, eval |-> beta]
            ELSE [ret |-> 1]
       ELSE [ret |-> 1]

\* update_hash_table: the slot is overwritten whatever it held
update_hash_table(t, h, eval, relativeDepth, flag, bestMove) ==
    [t EXCEPT !.written =
        (modHash(h) :> [hash_key |-> h, relativeDepth |-> relativeDepth,
                        eval |-> eval, flag |-> flag, bestMove |-> bestMove])
        @@ t.written]

\* ------------------------------------------------------------------------
\* Evaluation (eval.c): material, from the side to move
\* ------------------------------------------------------------------------
num_bits(bb) == Cardinality(bb)
evaluate(g) ==
    LET color == g.whose_turn
        foe == 1 - color
        diff(piec) == num_bits(g.piece_bb[2 * piec + color])
                      - num_bits(g.piece_bb[2 * piec + foe])
        scaling_factor == 100
    IN scaling_factor * (diff(pawn) + 3 * diff(knight) + 3 * diff(bishop)
                         + 5 * diff(rook) + 9 * diff(queen) + 100 * diff(king))

\* ------------------------------------------------------------------------
\* Search (search.c).  The table goes in and comes out with each call; left
\* is what a local that is read before it is assigned holds: left.score for
\* the int score of alphaBeta, left.move for move_list->moves[0].
\* ------------------------------------------------------------------------
RECURSIVE alphaBeta(_, _, _, _, _, _, _)
RECURSIVE alphaBetaLoop(_, _, _, _, _, _, _, _)
\* the score returned (ret), the table and the position as the call leaves them
alphaBeta(g, alpha, beta, depth, h, t, left) ==
    LET probe == get_eval(t, h, depth, alpha, beta)
    IN IF probe.ret = 0 THEN [ret |-> probe.eval, t |-> t, gs |-> g]
       ELSE IF depth = 0
       THEN CHOOSE leaf \in
               {[ret |-> score,
                 t |-> update_hash_table(t, h, score, 0, EXACT, NULLMOVE),
                 gs |-> g] : score \in {evaluate(g)}} : TRUE
       ELSE CHOOSE node \in
               {IF loop.returned
                THEN [ret |-> beta, t |-> loop.t, gs |-> loop.gs]
                ELSE [ret |-> IF loop.noMovesFlag = 1
                                 /\ checkCheck([loop.gs EXCEPT !.whose_turn = 1 - @]) = {}
                              THEN 0 ELSE loop.alpha,
                      t |-> update_hash_table(loop.t, h, loop.score, depth,
                                              loop.currentFlag, NULLMOVE),
                      gs |-> loop.gs] :
                   loop \in
                     {alphaBetaLoop(move_list, 1, Len(move_list), beta, depth, h,
                                    [gs |-> g, t |-> t, alpha |-> alpha,
                                     score |-> left.score, currentFlag |-> ALPHA,
                                     noMovesFlag |-> 1, returned |-> FALSE],
                                    left) :
                          move_list \in {generateAllMoves(g)}}} : TRUE

\* the loop of alphaBeta over move_list[lo..hi]; st holds the position, the
\* table and the locals as they stand, returned once "return beta" was
\* taken.  A range of several moves is its first half, then its second half
\* from where the first half ended.
alphaBetaLoop(move_list, lo, hi, beta, depth, h, st, left) ==
    IF lo > hi \/ st.returned THEN st
    ELSE IF lo < hi
    THEN CHOOSE st2 \in
            {alphaBetaLoop(move_list, (lo + hi) \div 2 + 1, hi, beta, depth, h,
                           st1, left) :
                 st1 \in {alphaBetaLoop(move_list, lo, (lo + hi) \div 2, beta,
                                        depth, h, st, left)}} : TRUE
    ELSE CHOOSE st2 \in
            {IF checkCheck(tried) # {}
             THEN [st EXCEPT !.gs = undoPreviousMove(tried, saveGamestate(st.gs))]
             ELSE CHOOSE st3 \in
                    {IF 0 - sub.ret >= beta
                     THEN [st EXCEPT
                             !.gs = sub.gs,
                             !.t = update_hash_table(sub.t, h, beta, depth, BETA,
                                                     NULLMOVE),
                             !.score = 0 - sub.ret,
                             !.noMovesFlag = 0,
                             !.returned = TRUE]
                     ELSE [gs |-> undoPreviousMove(sub.gs, saveGamestate(st.gs)),
                           t |-> sub.t,
                           alpha |-> IF 0 - sub.ret > st.alpha
                                     THEN 0 - sub.ret ELSE st.alpha,
                           score |-> 0 - sub.ret,
                           currentFlag |-> IF 0 - sub.ret > st.alpha
                                           THEN EXACT ELSE st.currentFlag,
                           noMovesFlag |-> 0,
                           returned |-> FALSE] :
                        sub \in {alphaBeta(tried, 0 - beta, 0 - st.alpha, depth - 1,
                                           currentHash, st.t, left)}} : TRUE :
                 tried \in {makeMove(move_list[lo], st.gs)},
                 currentHash \in {update_hash(move_list[lo], h)}} : TRUE

\* the loop of findBestMove without the undoPreviousMove after each move
RECURSIVE RootLoop_noUndo(_, _, _, _, _, _, _)
RootLoop_noUndo(move_list, lo, hi, depth, h, st, left) ==
    IF lo > hi THEN st
    ELSE IF lo < hi
    THEN CHOOSE st2 \in {RootLoop_noUndo(move_list, (lo + hi) \div 2 + 1, hi, depth, h, st1, left) :
                            st1 \in {RootLoop_noUndo(move_list, lo, (lo + hi) \div 2, depth, h, st, left)}} : TRUE
    ELSE LET alpha == 0 - 9999999
             beta == 0 - alpha
             move == move_list[lo]
         IN CHOOSE st2 \in
              {CHOOSE st3 \in
                 {[gs |-> sub.gs,
                   t |-> sub.t,
                   max |-> IF 0 - sub.ret > st.max THEN 0 - sub.ret ELSE st.max,
                   best_move |-> IF 0 - sub.ret > st.max THEN move ELSE st.best_move] :
                      sub \in
                        {IF probe.ret = 0
                         THEN [ret |-> 0 - probe.eval, t |-> st.t, gs |-> tried]
                         ELSE alphaBeta(tried, 0 - beta, 0 - alpha, depth - 1,
                                        currentHash, st.t, left) :
                             probe \in {get_eval(st.t, currentHash, depth, alpha,
                                                 beta)}}} : TRUE :
                   tried \in {makeMove(move, st.gs)},
                   currentHash \in {update_hash(move, h)}} : TRUE

\* the loop of findBestMove over move_list[lo..hi]; st holds the position,
\* the table, max and best_move as they stand
RECURSIVE RootLoop(_, _, _, _, _, _, _)
RootLoop(move_list, lo, hi, depth, h, st, left) ==
    IF lo > hi THEN st
    ELSE IF lo < hi
    THEN CHOOSE st2 \in {RootLoop(move_list, (lo + hi) \div 2 + 1, hi, depth, h, st1, left) :
                            st1 \in {RootLoop(move_list, lo, (lo + hi) \div 2, depth, h, st, left)}} : TRUE
    ELSE LET alpha == 0 - 9999999
             beta == 0 - alpha
             move == move_list[lo]
         IN CHOOSE st2 \in
              {CHOOSE st3 \in
                 {[gs |-> undoPreviousMove(sub.gs, saveGamestate(st.gs)),
                   t |-> sub.t,
                   max |-> IF 0 - sub.ret > st.max THEN 0 - sub.ret ELSE st.max,
                   best_move |-> IF 0 - sub.ret > st.max THEN move ELSE st.best_move] :
                      sub \in
                        {IF probe.ret = 0
                         THEN [ret |-> 0 - probe.eval, t |-> st.t, gs |-> tried]
                         ELSE alphaBeta(tried, 0 - beta, 0 - alpha, depth - 1,
                                        currentHash, st.t, left) :
                             probe \in {get_eval(st.t, currentHash, depth, alpha,
                                                 beta)}}} : TRUE :
                   tried \in {makeMove(move, st.gs)},
                   currentHash \in {update_hash(move, h)}} : TRUE

\* findBestMove from the move list on: the move returned, *best_score, the
\* table and the position
RootRun(g, move_list, depth, t, left) ==
    CHOOSE run \in
        {[best_move |-> st.best_move, best_score |-> st.max, t |-> st.t,
          gs |-> st.gs] :
             st \in
               {RootLoop(move_list, 1, Len(move_list), depth, hash0,
                         [gs |-> g, t |-> t, max |-> 0 - 9999999,
                          best_move |-> IF Len(move_list) > 0 THEN move_list[1]
                                        ELSE left.move],
                         left) : hash0 \in {current_pos_hash(g)}}} : TRUE

\* findBestMove over the pseudo-legal moves of the root
findBestMoveRun_pseudoLegal(g, depth, t, left) ==
    CHOOSE run \in {RootRun(g, move_list, depth, t, left) :
                       move_list \in {generateAllMoves(g)}} : TRUE

\* findBestMove: the move returned, *best_score, the table and the position
findBestMoveRun(g, depth, t, left) ==
    CHOOSE run \in {RootRun(gen.gs, gen.move_list, depth, t, left) :
                       gen \in {generateLegalMovesRun(g)}} : TRUE
findBestMove(g, depth, t, left) == findBestMoveRun(g, depth, t, left).best_move

\* iterativelyDeepen, the clock running out after the search of ply n; the
\* locals best_move and score as they stand before the search of ply; scores
\* lists what *best_score was after each search, the first ply first
RECURSIVE DeepenLoop(_, _, _, _, _, _, _)
DeepenLoop(g, ply, n, t, best, score, left) ==
    IF ply > n
    THEN [best_move |-> best, best_score |-> score, t |-> t, gs |-> g,
          ply |-> ply, scores |-> <<>>]
    ELSE CHOOSE run \in
            {IF found.best_score >= 9999999
             THEN [best_move |-> found.best_move,
                   best_score |-> found.best_score, t |-> found.t,
                   gs |-> found.gs, ply |-> ply + 1,
                   scores |-> <<found.best_score>>]
             ELSE CHOOSE more \in
                    {[rest EXCEPT !.scores = <<found.best_score>> \o @] :
                        rest \in {DeepenLoop(found.gs, ply + 1, n, found.t,
                                             found.best_move, found.best_score,
                                             left)}} : TRUE :
                 found \in {findBestMoveRun(g, ply, t, left)}} : TRUE
iterativelyDeepenRun(g, n, t, left) == DeepenLoop(g, 1, n, t, NoMove, left.score, left)
iterativelyDeepen(g, n, t, left) == iterativelyDeepenRun(g, n, t, left).best_move

\* ------------------------------------------------------------------------
\* The game: set up a position, make legal moves, take them back
\* ------------------------------------------------------------------------
\* Moves typed at the prompt (parse_move).  A character is its code.
\* ------------------------------------------------------------------------
toupper(c) == IF c >= 97 /\ c <= 122 THEN c - 32 ELSE c

\* strToSquare: the bitboard of a file 0..7 (a..h) and a rank 0..7
strToSquare(file, rank) == {8 * rank + (7 - file)}

\* charToPiece: 'N', 'B', 'R'; '\n' and ' ' are no promotion; else a queen
charToPiece(c) ==
    CASE c = 78 -> knight
      [] c = 66 -> bishop
      [] c = 82 -> rook
      [] c = 10 -> pawn
      [] c = 32 -> pawn
      [] OTHER -> queen

\* matchMove: the proposed move is equal to a move of the list
matchMove(proposed_move, move_list) ==
    IF \E i \in 1..Len(move_list) : move_list[i] = proposed_move THEN 1 ELSE 0

\* parse_move without the undoPreviousMove of a move that leaves the king in
\* check
parse_move_noUndo(input, g, move_list, turnFlag, capturedPiec) ==
    LET in0 == toupper(input[1]) - 65
        in2 == toupper(input[3]) - 65
        in1 == input[2] - 49
        in3 == input[4] - 49
        in4 == IF input[5] # 32 THEN toupper(input[5]) ELSE input[5]
        form == Cardinality({i \in 1..4 :
                    LET x == <<in0, in1, in2, in3>>[i] IN x < 0 \/ 7 < x})
    IN IF form # 0
       THEN [ret |-> 0 - 1, gs |-> g, move |-> NoMove, handed |-> FALSE]
       ELSE LET color == g.whose_turn
                source_bb == strToSquare(in0, in1)
                dest_bb == strToSquare(in2, in3)
                promoteTo == charToPiece(in4)
                found == {pc_idx \in 2..11 : source_bb \cap g.piece_bb[pc_idx] # {}}
                piec == IF found = {} THEN pawn
                        ELSE (CHOOSE pc_idx \in found :
                                 \A other \in found : pc_idx <= other) \div 2
                captureFlag == dest_bb \cap g.color_bb[1 - color] # {}
                doubleFlag == (shl(dest_bb, 16) \cap source_bb # {}
                                  \/ shr(dest_bb, 16) \cap source_bb # {})
                              /\ piec = pawn
                enPassantFlag == dest_bb \cap g.en_passant # {} /\ piec = pawn
                castleFlag == (shl(dest_bb, 2) \cap source_bb # {}
                                  \/ shr(dest_bb, 2) \cap source_bb # {})
                              /\ piec = king
                move == encodeMove(source_bb, dest_bb, piec, promoteTo, captureFlag, doubleFlag, enPassantFlag, castleFlag, turnFlag, capturedPiec)
            IN IF matchMove(move, move_list) = 1
               THEN CHOOSE r \in
                      {IF checkCheck(tried) # {}
                       THEN [ret |-> 0 - 1,
                             gs |-> tried,
                             move |-> move, handed |-> TRUE]
                       ELSE [ret |-> 2, gs |-> tried, move |-> move,
                             handed |-> TRUE] :
                          tried \in {makeMove(move, g)}} : TRUE
               ELSE [ret |-> 0 - 1, gs |-> g, move |-> move, handed |-> FALSE]

\* parse_move on the five characters input[0..4] (here input[1..5]):
\* move_list is what its call of generateAllMoves fills.  Its call of
\* encodeMove passes eight arguments, turnFlag and capturedPiec are what the
\* callee finds in the places of the ninth and the tenth.  ret is the value
\* returned, gs the position it leaves, move what it encoded, handed whether
\* makeMove was called with it.
parse_move(input, g, move_list, turnFlag, capturedPiec) ==
    LET in0 == toupper(input[1]) - 65
        in2 == toupper(input[3]) - 65
        in1 == input[2] - 49
        in3 == input[4] - 49
        in4 == IF input[5] # 32 THEN toupper(input[5]) ELSE input[5]
        form == Cardinality({i \in 1..4 :
                    LET x == <<in0, in1, in2, in3>>[i] IN x < 0 \/ 7 < x})
    IN IF form # 0
       THEN [ret |-> 0 - 1, gs |-> g, move |-> NoMove, handed |-> FALSE]
       ELSE LET color == g.whose_turn
                source_bb == strToSquare(in0, in1)
                dest_bb == strToSquare(in2, in3)
                promoteTo == charToPiece(in4)
                found == {pc_idx \in 2..11 : source_bb \cap g.piece_bb[pc_idx] # {}}
                piec == IF found = {} THEN pawn
                        ELSE (CHOOSE pc_idx \in found :
                                 \A other \in found : pc_idx <= other) \div 2
                captureFlag == dest_bb \cap g.color_bb[1 - color] # {}
                doubleFlag == (shl(dest_bb, 16) \cap source_bb # {}
                                  \/ shr(dest_bb, 16) \cap source_bb # {})
                              /\ piec = pawn
                enPassantFlag == dest_bb \cap g.en_passant # {} /\ piec = pawn
                castleFlag == (shl(dest_bb, 2) \cap source_bb # {}
                                  \/ shr(dest_bb, 2) \cap source_bb # {})
                              /\ piec = king
                move == encodeMove(source_bb, dest_bb, piec, promoteTo, captureFlag, doubleFlag, enPassantFlag, castleFlag, turnFlag, capturedPiec)
            IN IF matchMove(move, move_list) = 1
               THEN CHOOSE r \in
                      {IF checkCheck(tried) # {}
                       THEN [ret |-> 0 - 1,
                             gs |-> undoPreviousMove(tried, saveGamestate(g)),
                             move |-> move, handed |-> TRUE]
                       ELSE [ret |-> 2, gs |-> tried, move |-> move,
                             handed |-> TRUE] :
                          tried \in {makeMove(move, g)}} : TRUE
               ELSE [ret |-> 0 - 1, gs |-> g, move |-> move, handed |-> FALSE]

\* ------------------------------------------------------------------------
MaxPly == 2
GamePly == 2

\* what init_rook_magics can leave behind, as far as the positions of the
\* runs read the rook table: no shared slot among the occupancies read, or
\* one of two shared slots seen in builds of the source (rand() seeded 1 and
\* 4): for the rook on h1 and for the rook table of d1, both in the starting
\* position
MagicRuns ==
    { {},
      {[sq |-> 0, occ |-> {1, 2, 3, 4, 5, 6, 8, 48},
                  owner |-> {2, 5, 16, 24, 32, 40, 48}]},
      {[sq |-> 4, occ |-> {1, 2, 3, 5, 6, 12, 52},
                  owner |-> {1, 2, 3, 5, 6, 20, 52}]} }

\* the test of findMagicNumber on two occupancies that share a slot: the
\* attack sets it compares are rookAttacks(square, ...), the square number
\* taken as a bitboard
findMagicNumber(c) ==
    LET attacks(occ) == rookAttacks(BitsOf(c.sq), bnot(occ))
    IN /\ c.occ \subseteq rookMasks[c.sq]
       /\ c.owner \subseteq rookMasks[c.sq]
       /\ OccBefore(c.occ, c.owner)
       /\ (attacks(c.occ) = {} \/ attacks(c.occ) = attacks(c.owner))

\* the lines "-setup <fen>" the runs type
SetupLines ==
    { "r3k3/8/8/8/2B5/2n5/8/4K2R w Kq - 0 1\n",
      "4k3/P6p/8/6P1/8/8/8/4K3 b - - 0 1\n",
      "k7/8/8/5p2/4P3/6K1/8/8 w - - 0 1\n",
      "8/8 w - a6 0 1\n" }

\* positions with a forced mate: white mates in one (h1h8); black has the one
\* move h6h5 and is mated by c7c8 after it
MateLines ==
    { "k7/8/K7/8/8/8/8/7R w - - 0 1\n",
      "k7/2P5/1K5p/8/7P/8/8/8 b - - 0 1\n" }

\* the positions the searches start from: the position of db_simple_pos, the
\* forced mates, and a stalemate
SearchLines ==
    { "k7/8/8/5p2/4P3/6K1/8/8 w - - 0 1\n",
      "k7/P7/1K6/8/8/8/8/8 b - - 0 1\n" } \cup MateLines

\* the positions checkGameover is asked about: those of the searches, two
\* lone kings, and a mate with a pawn on the board
GameLines ==
    SearchLines \cup { "k7/8/8/8/8/8/8/K7 w - - 0 1\n",
                       "7k/5Q2/6K1/8/8/8/8/7p w - - 0 1\n" }

\* the positions moves are typed in: those of the other runs, a pawn about to
\* promote, a castling right in a position without the rook, and a piece that
\* can be captured on a corner
ParseLines ==
    SetupLines \cup {"1n2k3/P7/8/8/8/8/8/4K3 w - - 0 1\n",
                     "4k3/8/8/8/8/8/8/4K3 w K - 0 1\n",
                     "n3k3/8/8/8/8/8/8/R3K3 w Qq - 0 1\n"}

\* the positions the lines set up (parse_input, "-setup"): a FEN that does
\* not parse restarts the game
SetupPositions ==
    [fen \in SetupLines \cup SearchLines \cup ParseLines \cup GameLines |->
        LET parsed == parse_fen(fen)
        IN IF parsed.ret # 0 THEN init_board ELSE parsed.gs]

perftVars == <<perft_depth, perft_count>>
zobristVars == <<zobrist_ready, layout, hash, undone_hash>>
searchVars == <<hash_table, best_move, best_score, searched>>
vars == <<gs, rookMagics, saved, before, made, op, plies, perftVars,
          zobristVars, searchVars>>

\* main of aldan.c up to its first prompt: the board is set up; the tables
\* of the hashing are the zeroes of static storage, for no main fills them
InitGame ==
    /\ gs = init_board
    /\ rookMagics \in {r \in MagicRuns : \A c \in r : findMagicNumber(c)}
    /\ saved = saveGamestate(init_board)
    /\ before = init_board
    /\ made = NoMove
    /\ op = "init"
    /\ plies = 0
    /\ perft_depth = 0
    /\ perft_count = 0
    /\ zobrist_ready = FALSE
    /\ hash_table = static_hash_table
    /\ undone_hash = {}
    /\ best_move = NoMove
    /\ best_score = 0
    /\ searched = [depth |-> 0, runs |-> 0, scores |-> <<>>]

Init ==
    /\ InitGame
    /\ layout = "aldan"
    /\ hash = {}

Setup(fen) ==
    /\ gs' = SetupPositions[fen]
    /\ saved' = saveGamestate(SetupPositions[fen])
    /\ before' = SetupPositions[fen]
    /\ made' = NoMove
    /\ op' = "setup"
    /\ plies' = 0
    /\ perft_depth' = 0
    /\ perft_count' = 0
    /\ UNCHANGED <<rookMagics, zobristVars, searchVars>>

\* one pass of the loop of perft: save, then make a legal move
Make(m) ==
    /\ saved' = saveGamestate(gs)
    /\ before' = gs
    /\ gs' = makeMove(m, gs)
    /\ made' = m
    /\ op' = "make"
    /\ plies' = plies + 1
    /\ perft_depth' = 0
    /\ perft_count' = 0
    /\ UNCHANGED <<rookMagics, zobristVars, searchVars>>

\* ... and take it back
Undo ==
    /\ op = "make"
    /\ gs' = undoPreviousMove(gs, saved)
    /\ made' = [made EXCEPT !.source = 0, !.dest = 0]
    /\ op' = "undo"
    /\ plies' = plies - 1
    /\ UNCHANGED <<rookMagics, saved, before, perftVars, zobristVars,
                   searchVars>>

\* the moves of a move list
ToSet(move_list) == {move_list[i] : i \in 1..Len(move_list)}

MakeLegalWithin(n) ==
    /\ plies < n
    /\ \E m \in ToSet(generateLegalMoves(gs)) : Make(m)

MakeLegal == MakeLegalWithin(MaxPly)

\* main after a board change: checkGameover(ms, gs); op is what it printed
CheckGameover ==
    /\ op \in {"setup", "make"}
    /\ \E beyond \in BOOLEAN :
          \E run \in {checkGameover(gs, beyond)} :
              /\ gs' = run.gs
              /\ op' = run.says
    /\ before' = gs
    /\ UNCHANGED <<rookMagics, saved, made, plies, perftVars, zobristVars,
                   searchVars>>

\* the loop of main ends when checkGameover returns 1
GameOver == op \in {"gameover_draw", "gameover_checkmate", "gameover_stalemate"}

NextGame ==
    \/ \E fen \in GameLines : Setup(fen)
    \/ ~GameOver /\ MakeLegalWithin(GamePly)
    \/ CheckGameover

SpecGame == Init /\ [][NextGame]_vars

Next ==
    \/ \E fen \in SetupLines : Setup(fen)
    \/ MakeLegal
    \/ Undo

Spec == Init /\ [][Next]_vars

\* ------------------------------------------------------------------------
\* C1: whatever legal moves are made and taken back, the two colour boards
\* are disjoint, the twelve piece boards are pairwise disjoint, and the union
\* of the piece boards = all_bb = the union of the two colour boards
\* ------------------------------------------------------------------------
Partitioned(g) ==
    /\ g.color_bb[WHITE] \cap g.color_bb[BLACK] = {}
    /\ \A i, j \in 0..11 : i # j => g.piece_bb[i] \cap g.piece_bb[j] = {}
    /\ UNION {g.piece_bb[i] : i \in 0..11} = g.all_bb
    /\ g.all_bb = g.color_bb[WHITE] \cup g.color_bb[BLACK]

C1_Partition == Partitioned(gs)

\* a capture was made as the second move of a run, and taken back
C1_Witness == op = "undo" /\ plies = 1 /\ decodeCapture(made) = 1

\* ------------------------------------------------------------------------
\* C2: saveGamestate, makeMove of a legal move, undoPreviousMove: every
\* field of the position, the en-passant square, the castling rights and
\* both counters included, is what it was before the move
\* ------------------------------------------------------------------------
C2_RoundTrip == op = "undo" => gs = before

\* a castling move, which moved king and rook and took the rights, was
\* taken back
C2_Witness ==
    op = "undo" /\ decodeCastle(made) = 1 /\ gs.castling # {}

\* ------------------------------------------------------------------------
\* Perft runs: "-perft <depth>" on the starting position, on two positions
\* set up, and on the positions one legal move away from them
\* ------------------------------------------------------------------------
PerftHorizon == 3
PerftPly == 1

PerftLines ==
    { "4k3/P6p/8/6P1/8/8/8/4K3 b - - 0 1\n",
      "k7/8/8/5p2/4P3/6K1/8/8 w - - 0 1\n" }

\* printPerft: perft(depth, gs); the count it returns and the position it
\* leaves behind.  A run asks for one perft per position it reaches.
Perft(d) ==
    /\ plies + d <= PerftHorizon
    /\ op # "perft"
    /\ \E run \in {perftRun(d, gs)} :
          /\ perft_count' = run.count
          /\ gs' = run.gs
    /\ perft_depth' = d
    /\ before' = gs
    /\ op' = "perft"
    /\ UNCHANGED <<rookMagics, saved, made, plies, zobristVars, searchVars>>

NextPerft ==
    \/ \E fen \in PerftLines : Setup(fen)
    \/ MakeLegalWithin(PerftPly)
    \/ \E d \in 1..PerftHorizon : Perft(d)

SpecPerft == Init /\ [][NextPerft]_vars

\* ------------------------------------------------------------------------
\* C3: perft of the starting position is 20, 400, 8902, 197281, 4865609 for
\* the depths 1 to 5, and perft leaves the position as it found it
\* ------------------------------------------------------------------------
PerftOfStart(d) ==
    CASE d = 1 -> 20 [] d = 2 -> 400 [] d = 3 -> 8902
      [] d = 4 -> 197281 [] d = 5 -> 4865609

C3_PerftCounts ==
    (op = "perft" /\ before = init_board) =>
        (perft_count = PerftOfStart(perft_depth) /\ gs = before)

\* the half of C3 the code does keep: the position is left as it was found
C3_PositionKept == op = "perft" => gs = before

\* ------------------------------------------------------------------------
\* The rules of chess on files and ranks, for the claims to refer to
\* ------------------------------------------------------------------------
FileOf(s) == s % 8
RankOf(s) == s \div 8
Abs(x) == IF x < 0 THEN -x ELSE x
Sign(x) == IF x < 0 THEN -1 ELSE IF x > 0 THEN 1 ELSE 0

\* the squares strictly between two squares of one line
Between(a, b) ==
    LET df == Sign(FileOf(b) - FileOf(a))
        dr == Sign(RankOf(b) - RankOf(a))
        n == IF FileOf(a) = FileOf(b) THEN Abs(RankOf(b) - RankOf(a))
             ELSE Abs(FileOf(b) - FileOf(a))
    IN {a + k * (df + 8 * dr) : k \in 1..(n - 1)}

\* a piece piec of colour color on square from attacks square to
RuleAttacks(g, piec, color, from, to) ==
    LET df == FileOf(to) - FileOf(from)
        dr == RankOf(to) - RankOf(from)
        straight == (df = 0) # (dr = 0)
        diagonal == Abs(df) = Abs(dr) /\ df # 0
        clear == Between(from, to) \cap g.all_bb = {}
    IN CASE piec = pawn -> Abs(df) = 1 /\ dr = (IF color = WHITE THEN 1 ELSE -1)
         [] piec = knight -> {Abs(df), Abs(dr)} = {1, 2}
         [] piec = bishop -> diagonal /\ clear
         [] piec = rook -> straight /\ clear
         [] piec = queen -> (straight \/ diagonal) /\ clear
         [] piec = king -> Abs(df) <= 1 /\ Abs(dr) <= 1 /\ from # to

\* the king of colour side is attacked by a piece of the other colour
KingAttacked(g, side) ==
    \E to \in g.piece_bb[2 * king + side] :
        \E piec \in pawn..king :
            \E from \in g.piece_bb[2 * piec + (1 - side)] :
                RuleAttacks(g, piec, 1 - side, from, to)

\* ------------------------------------------------------------------------
\* C4: generateLegalMoves returns the moves of generateAllMoves, in the same
\* order, after which the king of the side that moved is not attacked, and
\* leaves the position as it found it
\* ------------------------------------------------------------------------
KeepSafe(g, all) ==
    SelectSeq(all, LAMBDA m : ~KingAttacked(makeMove(m, g), g.whose_turn))

C4_LegalFilter ==
    plies < MaxPly =>
        LET run == generateLegalMovesRun(gs)
        IN /\ run.move_list = KeepSafe(gs, generateAllMoves(gs))
           /\ run.gs = gs

\* a position in which the filter drops a move and keeps a move
C4_Witness ==
    /\ op = "make"
    /\ plies < MaxPly
    /\ Len(generateLegalMoves(gs)) > 0
    /\ Len(generateLegalMoves(gs)) < Len(generateAllMoves(gs))

\* ------------------------------------------------------------------------
\* C5: checkCheck is nonzero exactly when the king of the side that is not
\* to move (1 - whose_turn) is attacked by a piece of the side to move; the
\* positions are those a pseudo-legal move leads to
\* ------------------------------------------------------------------------
C5_CheckCheck ==
    plies < MaxPly =>
        \A m \in ToSet(generateAllMoves(gs)) :
            LET tried == makeMove(m, gs)
            IN (checkCheck(tried) # {}) <=> KingAttacked(tried, 1 - tried.whose_turn)

\* a pawn attacks the king that a pseudo-legal move left or put next to it
C5_Witness ==
    plies < MaxPly /\ \E m \in ToSet(generateAllMoves(gs)) :
        LET tried == makeMove(m, gs)
        IN /\ checkCheck(tried) # {}
           /\ \E from \in tried.piece_bb[2 * pawn + tried.whose_turn] :
                \E to \in tried.piece_bb[2 * king + (1 - tried.whose_turn)] :
                    RuleAttacks(tried, pawn, tried.whose_turn, from, to)

\* ------------------------------------------------------------------------
\* Hashing runs: the tables are filled or left as they are, positions are
\* set up and moved in, and update_hash is applied twice to a hash, as
\* debug_update does
\* ------------------------------------------------------------------------
HashPly == 1

\* the hashes debug_update starts from: its own random_bitstring(0), which
\* is 0, and one more 64-bit value
HashSeeds == { {}, {0, 5, 31, 32, 63} }

\* the twelve moves debug_all_updates makes up
DebugMoves ==
    { encodeMove({(i * 7) % 63}, {(i * 13) % 63}, i \div 2, 0, FALSE, FALSE,
                 FALSE, FALSE, i % 2 = 1, 0) : i \in 0..11 }

\* what the two builds of the Makefile have in common before the first
\* command: they differ in where the linker puts the tables
InitHash ==
    /\ InitGame
    /\ layout \in Layouts
    /\ hash \in HashSeeds

\* db_simple_pos and db_fork_pos: init_zobrist_tables(); init_hash_table()
InitTables ==
    /\ ~zobrist_ready
    /\ zobrist_ready' = TRUE
    /\ hash_table' = init_hash_table(hash_table)
    /\ op' = "init_tables"
    /\ UNCHANGED <<gs, rookMagics, saved, before, made, plies, perftVars,
                   layout, hash, undone_hash, best_move, best_score,
                   searched>>

\* debug_update: new_hash = update_hash(move, initial_hash), and
\* undone_hash = update_hash(move, new_hash)
DebugUpdate(m) ==
    /\ undone_hash' = update_hash(m, update_hash(m, hash))
    /\ made' = m
    /\ op' = "debug_update"
    /\ UNCHANGED <<gs, rookMagics, saved, before, plies, perftVars,
                   zobrist_ready, layout, hash, searchVars>>

\* a run ends with the one debug_update it makes
NextHash ==
    \/ op # "debug_update" /\ InitTables
    \/ op # "debug_update" /\ \E fen \in SetupLines : Setup(fen)
    \/ op # "debug_update" /\ MakeLegalWithin(HashPly)
    \/ op # "debug_update" /\
          \E m \in ToSet(generateAllMoves(gs)) \cup DebugMoves : DebugUpdate(m)

SpecHash == InitHash /\ [][NextHash]_vars

\* ------------------------------------------------------------------------
\* C9: update_hash applied twice with the same move gives back the hash it
\* started from, for every move and every 64-bit hash
\* ------------------------------------------------------------------------
C9_SelfInverse == op = "debug_update" => undone_hash = hash

\* an en-passant capture, with the tables filled, on a hash that is not 0
C9_Witness ==
    /\ op = "debug_update"
    /\ zobrist_ready
    /\ decodeEnPassant(made) = 1
    /\ hash # {}
    /\ update_hash(made, hash) # hash

\* ------------------------------------------------------------------------
\* C8: for every position reached and every legal move m of it,
\* update_hash(m, current_pos_hash(P)) = current_pos_hash(makeMove(m, P))
\* ------------------------------------------------------------------------
C8_HashIncremental ==
    \A m \in ToSet(generateLegalMoves(gs)) :
        update_hash(m, current_pos_hash(gs)) = current_pos_hash(makeMove(m, gs))

\* ------------------------------------------------------------------------
\* Search runs: positions are set up and moved in, the tables are filled as
\* db_simple_pos fills them or left as main leaves them, and findBestMove or
\* iterativelyDeepen is called, up to MaxSearches times, on the position
\* reached, when it has at most MaxBranch pseudo-legal moves
\* ------------------------------------------------------------------------
SearchHorizon == 2
SearchPly == 1
MateHorizon == 4
MaxSearches == 2
MaxBranch == 19

\* what an uninitialised local holds: the zeroes of a fresh stack page, or
\* what an earlier call left there, a score and the move e2e4
Leftovers ==
    { [score |-> 0, move |-> NoMove],
      [score |-> 12345,
       move |-> encodeMove({11}, {27}, pawn, pawn, FALSE, TRUE, FALSE, FALSE,
                           FALSE, pawn)] }

\* computerMakeMove and the db_ functions: findBestMove to a depth
FindBestMove(d) ==
    /\ searched.runs < MaxSearches
    /\ plies + d <= SearchHorizon
    /\ Len(generateAllMoves(gs)) <= MaxBranch
    /\ \E left \in Leftovers :
          \E run \in {findBestMoveRun(gs, d, hash_table, left)} :
              /\ gs' = run.gs
              /\ hash_table' = run.t
              /\ best_move' = run.best_move
              /\ best_score' = run.best_score
              /\ searched' = [depth |-> d, runs |-> searched.runs + 1,
                              scores |-> <<run.best_score>>]
    /\ before' = gs
    /\ op' = "findBestMove"
    /\ UNCHANGED <<rookMagics, saved, made, plies, perftVars, zobristVars>>

\* the budgets the mains pass for turn_time_ms
Budgets == {6, 1000}

\* readings of get_time_ms, in milliseconds: the first is start_time, the
\* next ones are curr_time of the passes of the loop; the last one is past
\* every budget
Clocks == { <<0, 1001>>, <<0, 3, 1001>>, <<0, 3, 7, 1001>>,
            <<0, 3, 7, 8, 9, 1001>> }

\* how deep the searches of a position may go: the positions with a forced
\* mate are searched past the ply that finds the mate
DeepenHorizon(g) ==
    IF g \in {SetupPositions[fen] : fen \in MateLines} THEN MateHorizon
    ELSE SearchHorizon

\* the number of passes of the loop of iterativelyDeepen that get by
\* "if (curr_time - start_time > turn_time_ms) break"
RECURSIVE ChecksPassed(_, _, _)
ChecksPassed(clock, turn_time_ms, ply) ==
    IF ply + 1 > Len(clock) \/ clock[ply + 1] - clock[1] > turn_time_ms
    THEN ply - 1
    ELSE ChecksPassed(clock, turn_time_ms, ply + 1)

\* main, a computer move: iterativelyDeepen with a budget, on a clock;
\* searched.depth is the depth of its last findBestMove
IterativelyDeepen(turn_time_ms, clock) ==
    /\ searched.runs < MaxSearches
    /\ plies + ChecksPassed(clock, turn_time_ms, 1) <= DeepenHorizon(gs)
    /\ Len(generateAllMoves(gs)) <= MaxBranch
    /\ \E left \in Leftovers :
          \E run \in {iterativelyDeepenRun(gs, ChecksPassed(clock, turn_time_ms, 1),
                                           hash_table, left)} :
              /\ gs' = run.gs
              /\ hash_table' = run.t
              /\ best_move' = run.best_move
              /\ best_score' = run.best_score
              /\ searched' = [depth |-> run.ply - 1,
                              runs |-> searched.runs + 1,
                              scores |-> run.scores]
    /\ before' = gs
    /\ op' = "iterativelyDeepen"
    /\ UNCHANGED <<rookMagics, saved, made, plies, perftVars, zobristVars>>

\* a run fills the tables or not and reaches its position, then searches it
\* uci_loop on "ucinewgame": init_board(gs) and nothing else
UciNewGame ==
    /\ gs' = init_board
    /\ saved' = saveGamestate(init_board)
    /\ before' = init_board
    /\ made' = NoMove
    /\ op' = "ucinewgame"
    /\ plies' = 0
    /\ perft_depth' = 0
    /\ perft_count' = 0
    /\ UNCHANGED <<rookMagics, zobristVars, searchVars>>

\* the last of the searches of a run has just returned
AfterSearch ==
    op \in {"findBestMove", "iterativelyDeepen"} /\ searched.runs = MaxSearches

NextSearch ==
    \/ searched.runs = 0 /\ InitTables
    \/ (searched.runs = 0 \/ AfterSearch) /\ \E fen \in SearchLines : Setup(fen)
    \/ AfterSearch /\ UciNewGame
    \/ searched.runs = 0 /\ MakeLegalWithin(SearchPly)
    \/ \E d \in 1..SearchHorizon : FindBestMove(d)
    \/ \E turn_time_ms \in Budgets, clock \in Clocks :
          IterativelyDeepen(turn_time_ms, clock)

SpecSearch == Init /\ [][NextSearch]_vars

\* a search went at least one ply deep
Searched ==
    op \in {"findBestMove", "iterativelyDeepen"} /\ searched.depth >= 1

\* ------------------------------------------------------------------------
\* C6: when the position has a legal move, the move findBestMove returns,
\* and the move iterativelyDeepen returns after a completed ply, is one of
\* generateLegalMoves of that position, whatever the depth and whatever the
\* hash table holds
\* ------------------------------------------------------------------------
C6_ReturnsLegalMove ==
    (Searched /\ generateLegalMoves(before) # <<>>) =>
        best_move \in ToSet(generateLegalMoves(before))

\* two plies of iterativelyDeepen, the second on the table the first one
\* filled, returned a move that is not the first of the list, in a position
\* where a pseudo-legal move is not legal
C6_Witness ==
    /\ op = "iterativelyDeepen"
    /\ searched.depth = 2
    /\ zobrist_ready
    /\ Len(generateLegalMoves(before)) < Len(generateAllMoves(before))
    /\ best_move \in ToSet(generateLegalMoves(before))
    /\ best_move # generateLegalMoves(before)[1]

\* ------------------------------------------------------------------------
\* C7: on a position without a legal move, findBestMove and
\* iterativelyDeepen return NULLMOVE, the value that stands for no move
\* ------------------------------------------------------------------------
C7_NoMoveSentinel ==
    (Searched /\ generateLegalMoves(before) = <<>>) => best_move = NULLMOVE

\* ------------------------------------------------------------------------
\* C10: the score and the move of findBestMove to depth d are those of the
\* full-width negamax to depth d with the same evaluator and move order,
\* the first move of the highest score winning, whether the hash table is
\* empty or holds earlier entries
\* ------------------------------------------------------------------------
RECURSIVE NegaMax(_, _)
NegaMax(g, depth) ==
    IF depth = 0 THEN evaluate(g)
    ELSE LET legal == generateLegalMoves(g)
             scores == {0 - NegaMax(makeMove(legal[i], g), depth - 1) :
                            i \in 1..Len(legal)}
         IN IF legal = <<>>
            THEN IF KingAttacked(g, g.whose_turn) THEN 0 - 9999999 ELSE 0
            ELSE CHOOSE best \in scores : \A other \in scores : other <= best

C10_SameAsNegamax ==
    (Searched /\ generateLegalMoves(before) # <<>>) =>
        LET legal == generateLegalMoves(before)
            scores == [i \in 1..Len(legal) |->
                          0 - NegaMax(makeMove(legal[i], before),
                                      searched.depth - 1)]
            first == CHOOSE i \in 1..Len(legal) :
                         /\ \A j \in 1..Len(legal) : scores[j] <= scores[i]
                         /\ \A j \in 1..(i - 1) : scores[j] < scores[i]
        IN best_score = scores[first] /\ best_move = legal[first]

\* ------------------------------------------------------------------------
\* C11: whatever the budget and the readings of the clock, iterativelyDeepen
\* completes the search of ply 1 before a clock check stops it
\* ------------------------------------------------------------------------
C11_FirstPlyCompleted == op = "iterativelyDeepen" => searched.depth >= 1

\* ------------------------------------------------------------------------
\* C12: after makeMove the move number gs->moves is one more than before
\* when black made the move, and what it was when white made it
\* ------------------------------------------------------------------------
C12_MoveNumber ==
    op = "make" =>
        gs.moves = before.moves + (IF before.whose_turn = BLACK THEN 1 ELSE 0)

\* ------------------------------------------------------------------------
\* C13: after makeMove halfmove_counter is 0 when a pawn moved or a piece
\* was captured, and one more than before otherwise
\* ------------------------------------------------------------------------
C13_HalfmoveClock ==
    op = "make" =>
        gs.halfmove_counter =
            IF decodePiece(made) = pawn \/ decodeCapture(made) = 1 THEN 0
            ELSE before.halfmove_counter + 1

\* ------------------------------------------------------------------------
\* C14: after a new game is started (ucinewgame, or -setup) no probe of the
\* transposition table returns a score stored during the game before: every
\* slot written so far misses, whatever the depth and the window of the probe
\* ------------------------------------------------------------------------
ProbeWindows == {<<0 - 9999999, 9999999>>, <<9999999, 9999999>>,
                 <<0 - 9999999, 0 - 9999999>>}
C14_TableResetOnNewGame ==
    op \in {"setup", "ucinewgame"} =>
        \A slot \in DOMAIN hash_table.written :
            \A relativeDepth \in 0..SearchHorizon, w \in ProbeWindows :
                get_eval(hash_table, hash_table.written[slot].hash_key,
                         relativeDepth, w[1], w[2]).ret = 1

\* ------------------------------------------------------------------------
\* Runs of the prompt: positions are set up and moves are typed
\* ------------------------------------------------------------------------
ParsePly == 1
\* 'a'..'i' and 'E'; '0'..'8'; '\n' and 'q'
ParseFiles == (97..105) \cup {69}
ParseRanks == 48..56
ParsePromos == {10, 113}
\* what the callee can find where the two arguments are missing
LeftTurnFlags == BOOLEAN
LeftCapturedPiecs == {pawn, knight}
ParseInputs ==
    {<<f1, r1, f2, r2, p>> : f1 \in ParseFiles, r1 \in ParseRanks, f2 \in ParseFiles, r2 \in ParseRanks, p \in ParsePromos}

\* parse_input falls through to parse_move; the main loop plays on only after
\* the value 2
ParseMove ==
    /\ plies < ParsePly
    /\ \E move_list \in {generateAllMoves(gs)} :
         \E input \in ParseInputs, turnFlag \in LeftTurnFlags, capturedPiec \in LeftCapturedPiecs :
           \E run \in {parse_move(input, gs, move_list, turnFlag, capturedPiec)} :
             /\ gs' = run.gs
             /\ before' = gs
             /\ saved' = IF run.handed THEN saveGamestate(gs) ELSE saved
             /\ made' = IF run.handed THEN run.move ELSE made
             /\ op' = IF run.ret = 2 THEN "parse_move" ELSE "parse_move_rejected"
             /\ plies' = IF run.ret = 2 THEN plies + 1 ELSE plies
    /\ perft_depth' = 0
    /\ perft_count' = 0
    /\ UNCHANGED <<rookMagics, zobristVars, searchVars>>

\* parse_input on a line that starts with "-setup" without the init_board
\* that follows a FEN parse_fen turned down
parse_input_setup_noRestart(input) ==
    IF Len(input) < 8 THEN [gs |-> init_board, path |-> "setup_nofen"]
    ELSE LET parsed == parse_fen(SubSeq(input, 8, Len(input)))
         IN IF parsed.ret # 0
            THEN [gs |-> parsed.gs, path |-> "setup_rejected"]
            ELSE [gs |-> parsed.gs, path |-> "setup"]

\* parse_input on a line that starts with "-setup": the position it leaves
\* in gs and the branch it took.  fen = input + 7.
parse_input_setup(input) ==
    IF Len(input) < 8 THEN [gs |-> init_board, path |-> "setup_nofen"]
    ELSE LET parsed == parse_fen(SubSeq(input, 8, Len(input)))
         IN IF parsed.ret # 0
            THEN [gs |-> init_board, path |-> "setup_rejected"]
            ELSE [gs |-> parsed.gs, path |-> "setup"]

\* the lines typed: no FEN, the positions moves are typed in, FENs that
\* parse_fen turns down before and after it has placed pieces
SetupCommands ==
    {"-setup\n", "-setup 99\n", "-setup k7/8/12\n", "-setup kq w - a9\n"}
        \cup {"-setup " \o fen : fen \in ParseLines}

SetupCommand(input) ==
    /\ \E run \in {parse_input_setup(input)} :
         /\ gs' = run.gs
         /\ saved' = saveGamestate(run.gs)
         /\ before' = run.gs
         /\ op' = run.path
    /\ made' = NoMove
    /\ plies' = 0
    /\ perft_depth' = 0
    /\ perft_count' = 0
    /\ UNCHANGED <<rookMagics, zobristVars, searchVars>>

NextParse ==
    \/ \E input \in SetupCommands : SetupCommand(input)
    \/ ParseMove

SpecParse == Init /\ [][NextParse]_vars

\* ------------------------------------------------------------------------
\* C15: parse_move changes the position only when the move typed is legal;
\* when it rejects the move (malformed squares, not among the generated
\* moves, or leaving the king in check) the game state is the state before
\* ------------------------------------------------------------------------
C15_OnlyLegalMovesChange ==
    /\ op = "parse_move_rejected" => gs = before
    /\ op = "parse_move" =>
          /\ made \in ToSet(generateLegalMoves(before))
          /\ gs = makeMove(made, before)
\* a move among the generated ones was made, left the king in check and was
\* taken back
C15_Witness ==
    /\ op = "parse_move_rejected"
    /\ matchMove(made, generateAllMoves(before)) = 1
    /\ checkCheck(makeMove(made, before)) # {}

\* ------------------------------------------------------------------------
\* C16: after "-setup" with a string parse_fen turns down, or with no FEN,
\* the game state is the position of init_board
\* ------------------------------------------------------------------------
C16_BadSetupRestarts ==
    op \in {"setup_nofen", "setup_rejected"} => gs = init_board
\* a FEN was turned down after parse_fen had cleared the boards
C16_Witness ==
    op = "setup_rejected" /\ gs = init_board /\ gs.all_bb # {}

\* ------------------------------------------------------------------------
\* C17: every entry alphaBeta writes for its node is a sound bound: without
\* a cutoff it holds the final alpha, with EXACT if some move raised alpha
\* and ALPHA otherwise; on a cutoff it holds beta with BETA.  Checked for
\* the node of the position reached, one ply deep, in every window of
\* NodeWindows, whenever the probe at the node misses.
\* ------------------------------------------------------------------------
NodeWindows == {<<0 - 9999999, 9999999>>, <<0 - 50, 50>>, <<0 - 300, 0 - 200>>}
C17_SoundEntries ==
    searched.runs = 0 =>
        \A w \in NodeWindows, left \in Leftovers :
            \A h \in {current_pos_hash(gs)}, move_list \in {generateAllMoves(gs)} :
                \A node \in {alphaBeta(gs, w[1], w[2], 1, h, hash_table, left)},
                   loop \in {alphaBetaLoop(move_list, 1, Len(move_list), w[2], 1, h,
                                           [gs |-> gs, t |-> hash_table, alpha |-> w[1],
                                            score |-> left.score, currentFlag |-> ALPHA,
                                            noMovesFlag |-> 1, returned |-> FALSE],
                                           left)} :
                    get_eval(hash_table, h, 1, w[1], w[2]).ret = 1 =>
                        \A e \in {SlotOf(node.t, h)} :
                            /\ e.hash_key = h
                            /\ e.relativeDepth = 1
                            /\ IF loop.returned
                               THEN e.eval = w[2] /\ e.flag = BETA
                               ELSE /\ e.eval = loop.alpha
                                    /\ e.flag = IF loop.alpha > w[1] THEN EXACT ELSE ALPHA

\* ------------------------------------------------------------------------
\* C18: get_eval hits (returns 0) exactly when the slot of the hash stores
\* that very hash, the stored depth is at least the depth asked for, and the
\* flag is EXACT (eval := the stored score), or ALPHA with the stored score
\* <= alpha (eval := alpha), or BETA with the stored score >= beta
\* (eval := beta); a miss returns 1 and leaves eval alone; after
\* init_hash_table no probe hits until something is stored
\* ------------------------------------------------------------------------
\* the hashes probed: zero, that of the position, the keys stored, and for
\* each of them a hash of the same slot that differs in a high bit
ProbeHashes ==
    LET near == {{}, current_pos_hash(gs)}
                   \cup {hash_table.written[slot].hash_key : slot \in DOMAIN hash_table.written}
    IN near \cup {bxor(k, {40}) : k \in near}
Probes ==
    {[hash |-> h, relativeDepth |-> d, alpha |-> w[1], beta |-> w[2]] :
        h \in ProbeHashes, d \in 0..SearchHorizon, w \in ProbeWindows \cup NodeWindows}
C18_ProbeRule ==
    \A p \in Probes :
        \A e \in {SlotOf(hash_table, p.hash)},
           probe \in {get_eval(hash_table, p.hash, p.relativeDepth, p.alpha, p.beta)} :
            /\ probe.ret = 0 <=>
                  /\ e.hash_key = p.hash
                  /\ e.relativeDepth >= p.relativeDepth
                  /\ \/ e.flag = EXACT
                     \/ e.flag = ALPHA /\ e.eval <= p.alpha
                     \/ e.flag = BETA /\ e.eval >= p.beta
            /\ probe.ret = 0 =>
                  probe.eval = CASE e.flag = EXACT -> e.eval
                                 [] e.flag = ALPHA -> p.alpha
                                 [] e.flag = BETA -> p.beta
            /\ probe.ret # 0 => probe.ret = 1 /\ DOMAIN probe = {"ret"}
            /\ op = "init_tables" => probe.ret = 1
\* a table searches have stored in: a probe of a stored key hits, and the
\* probe of the same slot with another key misses
C18_Witness ==
    \E p \in Probes :
        /\ DOMAIN hash_table.written # {}
        /\ get_eval(hash_table, p.hash, p.relativeDepth, p.alpha, p.beta).ret = 0
        /\ get_eval(hash_table, bxor(p.hash, {40}), p.relativeDepth, p.alpha, p.beta).ret = 1

\* ------------------------------------------------------------------------
\* C19: at a node one ply or more above the horizon where no pseudo-legal
\* move is legal, alphaBeta returns 0 when the side to move is not in check
\* and -MATE + ply when it is: a score the ply of the node fixes, the same
\* in whatever window the node is searched.  Checked whenever the probe at
\* the node misses.
\* ------------------------------------------------------------------------
NodeReturn(w, depth, left) ==
    CHOOSE ret \in
        {alphaBeta(gs, w[1], w[2], depth, h, hash_table, left).ret :
             h \in {current_pos_hash(gs)}} : TRUE
NodeMisses(w, depth) ==
    get_eval(hash_table, current_pos_hash(gs), depth, w[1], w[2]).ret = 1
C19_NoLegalMove ==
    (searched.runs = 0 /\ generateLegalMoves(gs) = <<>>) =>
        \A depth \in 1..SearchHorizon, left \in Leftovers :
            \A w \in {v \in NodeWindows : NodeMisses(v, depth)} :
                IF KingAttacked(gs, gs.whose_turn)
                THEN \A w2 \in {v \in NodeWindows : NodeMisses(v, depth)} :
                         NodeReturn(w, depth, left) = NodeReturn(w2, depth, left)
                ELSE NodeReturn(w, depth, left) = 0

\* ------------------------------------------------------------------------
\* C20: in every position, those set up from a FEN included, generateAllMoves
\* emits a castling move of the side to move exactly when (a) the castling
\* right of that wing is held, (b) a rook of that colour stands on the
\* corner of that wing, (c) the squares between king and rook are empty and
\* (d) no piece of the opponent attacks the square the king leaves, the
\* square it crosses or the square it reaches
\* ------------------------------------------------------------------------
Wings == {"kingside", "queenside"}
\* the castling right of a wing as parse_extras numbers them: K 3, Q 2, k 1, q 0
RightOf(color, wing) == 2 * (1 - color) + (IF wing = "kingside" THEN 1 ELSE 0)
CornerOf(color, wing) == (IF wing = "kingside" THEN h1 ELSE a1) + 56 * color
\* the king goes two squares towards the corner
CastleDest(king_sq, wing) == IF wing = "kingside" THEN king_sq - 2 ELSE king_sq + 2
SquareAttacked(g, by, to) ==
    \E piec \in pawn..king :
        \E from \in g.piece_bb[2 * piec + by] : RuleAttacks(g, piec, by, from, to)
CastleRule(g, wing) ==
    LET color == g.whose_turn
    IN \E king_sq \in g.piece_bb[2 * king + color] :
        /\ RightOf(color, wing) \in g.castling
        /\ CornerOf(color, wing) \in g.piece_bb[2 * rook + color]
        /\ RankOf(king_sq) = RankOf(CornerOf(color, wing))
        /\ Between(king_sq, CornerOf(color, wing)) # {}
        /\ Between(king_sq, CornerOf(color, wing)) \cap g.all_bb = {}
        /\ \A to \in {king_sq, (king_sq + CastleDest(king_sq, wing)) \div 2,
                      CastleDest(king_sq, wing)} :
               ~SquareAttacked(g, 1 - color, to)
EmitsCastle(g, wing) ==
    \E m \in ToSet(generateAllMoves(g)) :
        decodeCastle(m) = 1 /\ decodeDest(m) = CastleDest(decodeSource(m), wing)
C20_CastlingRule ==
    \A wing \in Wings : EmitsCastle(gs, wing) <=> CastleRule(gs, wing)

\* ------------------------------------------------------------------------
\* C21: makeMove changes the castling rights exactly so: a move of the king
\* (a castle included) clears both rights of its colour; a move from or onto
\* h1, a1, h8, a8 clears the right of white's kingside, white's queenside,
\* black's kingside, black's queenside; every other right stays and no right
\* comes back
\* ------------------------------------------------------------------------
RightsCleared(m, color) ==
    (IF decodePiece(m) = king THEN {RightOf(color, wing) : wing \in Wings} ELSE {})
        \cup {r \in 0..3 :
                \E side \in {WHITE, BLACK}, wing \in Wings :
                    /\ r = RightOf(side, wing)
                    /\ CornerOf(side, wing) \in {decodeSource(m), decodeDest(m)}}
C21_CastlingRights ==
    op \in {"make", "parse_move"} =>
        gs.castling = before.castling \ RightsCleared(made, before.whose_turn)
\* a piece was captured on a corner: the right of the corner left and the
\* right of the corner reached are gone
C21_Witness ==
    /\ op = "parse_move"
    /\ decodeCapture(made) = 1
    /\ decodeSource(made) = a1
    /\ decodeDest(made) = a8
    /\ before.castling = {0, 2}
    /\ gs.castling = {}

\* ------------------------------------------------------------------------
\* C22: when the en-passant target is set and a pawn of the side to move
\* attacks it, generateLegalMoves holds that capture with the en-passant
\* flag set, unless it exposes the own king, and makeMove of it takes the
\* enemy pawn on the square behind the destination, as the mover sees it,
\* off its piece board, its colour board and all_bb
\* ------------------------------------------------------------------------
\* the moves of the list from a square to a square
MovesBetween(move_list, from, to) ==
    {m \in ToSet(move_list) : decodeSource(m) = from /\ decodeDest(m) = to}
SquareBehind(to, color) == IF color = WHITE THEN to - 8 ELSE to + 8
LastRank(color) == IF color = WHITE THEN rank8 ELSE rank1
\* the pawn on from may go to the square to by the rules: a step forward onto
\* an empty square or a capture
PawnMayGo(g, from, to) ==
    \/ to = SquareBehind(from, 1 - g.whose_turn) /\ to \notin g.all_bb
    \/ RuleAttacks(g, pawn, g.whose_turn, from, to) /\ to \in g.color_bb[1 - g.whose_turn]
\* how many entries of the list go from a square to a square
CountBetween(move_list, from, to) ==
    Cardinality({i \in 1..Len(move_list) :
                    decodeSource(move_list[i]) = from /\ decodeDest(move_list[i]) = to})
C23_Promotions ==
    \A from \in gs.piece_bb[2 * pawn + gs.whose_turn], to \in LastRank(gs.whose_turn) :
        \A move_list \in {generateAllMoves(gs)} :
            /\ PawnMayGo(gs, from, to) <=> CountBetween(move_list, from, to) > 0
            /\ PawnMayGo(gs, from, to) =>
                 /\ CountBetween(move_list, from, to) = 4
                 /\ {decodePromote(m) : m \in MovesBetween(move_list, from, to)}
                       = {knight, bishop, rook, queen}
                 /\ \A m \in MovesBetween(move_list, from, to) :
                       \A after \in {makeMove(m, gs)} :
                          /\ to \notin after.piece_bb[2 * pawn + gs.whose_turn]
                          /\ to \in after.piece_bb[2 * decodePromote(m) + gs.whose_turn]
                          /\ to \in after.color_bb[gs.whose_turn]
                          /\ \A i \in 0..11 :
                                i # 2 * decodePromote(m) + gs.whose_turn
                                    => to \notin after.piece_bb[i]
\* a pawn took a piece on the last rank and became a queen
C23_Witness ==
    /\ op = "parse_move"
    /\ decodePiece(made) = pawn
    /\ decodePromote(made) = queen
    /\ decodeCapture(made) = 1
    /\ decodeDest(made) \in gs.piece_bb[2 * queen + before.whose_turn]

\* ------------------------------------------------------------------------
\* C24: iterativelyDeepen stops deepening and returns as soon as a completed
\* ply reports a forced mate for either side, the root score at or beyond
\* the mate threshold 9999999 in absolute value, whether the side to move
\* mates or is mated: no ply is searched after such a ply
\* ------------------------------------------------------------------------
ReportsMate(score) == score >= 9999999 \/ score <= 0 - 9999999
C24_StopsAtMate ==
    (op = "iterativelyDeepen" /\ generateLegalMoves(before) # <<>>) =>
        \A ply \in 1..(Len(searched.scores) - 1) :
            ~ReportsMate(searched.scores[ply])

\* ------------------------------------------------------------------------
\* C25: after init_magic_bitboards, for every square and every occupancy,
\* magicRookAttacks(sq, occ) is rookAttacks(1 << sq, ~occ) and
\* magicBishopAttacks(sq, occ) is bishopAttacks(1 << sq, ~occ); a magic that
\* findMagicNumber accepted never gives two occupancies of the mask with
\* different attack sets the same index.  The occupancies are those of the
\* positions of the runs
\* ------------------------------------------------------------------------
C25_MagicLookups ==
    /\ \A sq \in Squares :
          /\ magicRookAttacks(sq, gs.all_bb) = rookAttacks({sq}, bnot(gs.all_bb))
          /\ magicBishopAttacks(sq, gs.all_bb) = bishopAttacks({sq}, bnot(gs.all_bb))
    /\ \A c \in rookMagics :
          rookAttacks({c.sq}, bnot(c.occ)) = rookAttacks({c.sq}, bnot(c.owner))

\* ------------------------------------------------------------------------
\* C26: in the command-line program init_zobrist_tables and init_hash_table
\* have run, once, before the first iterativelyDeepen or findBestMove: no
\* search returns with the Zobrist codes and the table still the zeroes of
\* static storage
\* ------------------------------------------------------------------------
C26_TablesReadyBeforeSearch ==
    op \in {"findBestMove", "iterativelyDeepen"} => zobrist_ready

\* ------------------------------------------------------------------------
\* C27: checkGameover reports a draw by insufficient material exactly when
\* only the two kings remain; otherwise, when the side to move has no legal
\* move, checkmate if its king is attacked and stalemate if not; otherwise
\* the game continues
\* ------------------------------------------------------------------------
OnlyKings(g) ==
    /\ g.all_bb = g.piece_bb[2 * king + WHITE] \cup g.piece_bb[2 * king + BLACK]
    /\ Cardinality(g.piece_bb[2 * king + WHITE]) = 1
    /\ Cardinality(g.piece_bb[2 * king + BLACK]) = 1
GameoverRule(g) ==
    IF OnlyKings(g) THEN "gameover_draw"
    ELSE IF generateLegalMoves(g) # <<>> THEN "game_continues"
    ELSE IF KingAttacked(g, g.whose_turn) THEN "gameover_checkmate"
    ELSE "gameover_stalemate"
C27_GameoverVerdict ==
    (GameOver \/ op = "game_continues") => op = GameoverRule(before)

\* ------------------------------------------------------------------------
\* C28: findBestMove returns with the game state equal to the state it was
\* called with, at every depth and whatever the search met (a table hit, a
\* cutoff below, a mate, a root without a legal move); so does
\* iterativelyDeepen, which only calls findBestMove
\* ------------------------------------------------------------------------
C28_SearchKeepsPosition ==
    op \in {"findBestMove", "iterativelyDeepen"} => gs = before
\* a search two plies deep, with the tables filled, over a position that has
\* legal moves, has returned
C28_Witness ==
    /\ op = "findBestMove"
    /\ searched.depth = 2
    /\ zobrist_ready
    /\ generateLegalMoves(before) # <<>>
    /\ DOMAIN hash_table.written # {}
    /\ gs = before

\* ------------------------------------------------------------------------
\* C29: alphaBeta returns with the game state equal to the state it was
\* called with on every return path: a table hit, depth 0, a beta cutoff,
\* the end of the loop, a node without a legal move.  Checked for the node
\* of the position reached, at depth 0 and one ply deep, in every window of
\* NodeWindows
\* ------------------------------------------------------------------------
C29_AlphaBetaKeepsPosition ==
    searched.runs = 0 =>
        \A w \in NodeWindows, depth \in 0..1, left \in Leftovers :
            \A node \in {alphaBeta(gs, w[1], w[2], depth, h, hash_table, left) :
                            h \in {current_pos_hash(gs)}} :
                node.gs = gs

\* ------------------------------------------------------------------------
\* C30: every index update_hash reads enpassantCodes at is a file number,
\* 0..7, for every move generateAllMoves emits in a position of the runs
\* ------------------------------------------------------------------------
C30_EnpassantIndexIsFile ==
    (op = "debug_update" /\ made \in ToSet(generateAllMoves(gs))) =>
        EnpassantIndexes(made) \subseteq 0..7

====
